---------------------------- MODULE Spec2Model ----------------------------
(***************************************************************************)
(* Sitemap generation of TVSHOWup: the edge function                       *)
(* supabase/functions/generate-sitemaps/index.ts and the browser module    *)
(* src/lib/sitemap.ts (class SitemapGenerator).                            *)
(*                                                                         *)
(* Conventions of the model                                                *)
(*  - a nullable column or optional field is NULL (<<>>) or <<v>>;         *)
(*  - JavaScript strings are TLA+ strings, template literals are \o;       *)
(*  - popularity and vote_average are numbers of tenths (1001 is 100.1),   *)
(*    priorities are numbers of hundredths (85 is 0.85).  The IEEE sums    *)
(*    of the code differ from the decimal value by at most one ulp         *)
(*    (0.9 + 0.05 is 0.9500000000000001) and 0.9 + 0.05 + 0.05 is cut to   *)
(*    exactly 1.0 by Math.min;                                             *)
(*  - a date is a record [y, m, d]; the runtime's time zone is UTC.        *)
(***************************************************************************)
EXTENDS Integers, Sequences, FiniteSets, TLC

(***************************************************************************)
(* Values                                                                  *)
(***************************************************************************)
NULL == <<>>

Some(v) == <<v>>

\* JavaScript truthiness of a nullable string: null, undefined and '' are falsy
Truthy(o) == o # NULL /\ o[1] # ""

\* Number(x) || 0 : null, undefined and NaN give 0
NumberOr0(o) == IF o = NULL THEN 0 ELSE o[1]

Min2(a, b) == IF a < b THEN a ELSE b

Max2(a, b) == IF a > b THEN a ELSE b

(***************************************************************************)
(* Module constants                                                        *)
(***************************************************************************)
SUPPORTED_LANGUAGES == <<"en", "tr", "de", "fr", "es", "it", "pt", "ru", "ja", "ko", "zh">>

\* SUPPORTED_LANGUAGES of src/lib/utils.ts, imported by the browser module
BROWSER_LANGUAGES == <<"en", "tr", "de", "fr", "es", "it", "pt", "ja", "ko", "ar">>

BASE_URL == "https://www.tvshowup.com"

TMDB_IMAGE_BASE == "https://image.tmdb.org/t/p/original"

MAX_URLS_PER_SITEMAP == 50000

\* default of the limit argument of the browser generators
DEFAULT_LIMIT == 10000

\* for (let page = 1; page <= 10; page++)
MAX_PAGES == 10

\* if (people.length >= 2000) break ... people.slice(0, 2000)
MAX_PEOPLE == 2000

(***************************************************************************)
(* Dates: new Date(), new Date(string), setMonth, toISOString              *)
(***************************************************************************)
DigitChars == <<"0", "1", "2", "3", "4", "5", "6", "7", "8", "9">>

IsDigit(c) == \E i \in 1..10 : DigitChars[i] = c

DigitOf(c) == (CHOOSE i \in 1..10 : DigitChars[i] = c) - 1

AllDigits(s) == \A i \in 1..Len(s) : IsDigit(SubSeq(s, i, i))

RECURSIVE ParseNat(_)
ParseNat(s) ==
  IF Len(s) = 0 THEN 0
  ELSE 10 * ParseNat(SubSeq(s, 1, Len(s) - 1)) + DigitOf(SubSeq(s, Len(s), Len(s)))

IsLeap(y) == (y % 4 = 0 /\ y % 100 # 0) \/ y % 400 = 0

DaysIn(y, m) ==
  IF m = 2 THEN (IF IsLeap(y) THEN 29 ELSE 28)
  ELSE IF m \in {4, 6, 9, 11} THEN 30 ELSE 31

\* an Invalid Date (every comparison with it is false)
InvalidDate == [y |-> 0, m |-> 0, d |-> 0]

\* the date part of new Date(s) for 'YYYY-MM-DD' or 'YYYY-MM-DDTHH:MM:SSZ'
ParseDate(s) ==
  IF Len(s) >= 10 /\ AllDigits(SubSeq(s, 1, 4)) /\ SubSeq(s, 5, 5) = "-"
     /\ AllDigits(SubSeq(s, 6, 7)) /\ SubSeq(s, 8, 8) = "-"
     /\ AllDigits(SubSeq(s, 9, 10))
  THEN LET y == ParseNat(SubSeq(s, 1, 4))
           m == ParseNat(SubSeq(s, 6, 7))
           d == ParseNat(SubSeq(s, 9, 10))
       IN IF m \in 1..12 /\ d >= 1 /\ d <= DaysIn(y, m)
          THEN [y |-> y, m |-> m, d |-> d] ELSE InvalidDate
  ELSE InvalidDate

Pad2(n) == DigitChars[(n \div 10) + 1] \o DigitChars[(n % 10) + 1]

Pad4(n) == Pad2(n \div 100) \o Pad2(n % 100)

\* date.toISOString().split('T')[0]
IsoDate(dt) == Pad4(dt.y) \o "-" \o Pad2(dt.m) \o "-" \o Pad2(dt.d)

\* date.setMonth(date.getMonth() - k) for 0 <= k <= 12: the month goes back k,
\* borrowing a year, and a day past the end of that month runs over into the next
SetMonthBack(dt, k) ==
  LET m0 == dt.m - 1 - k
      y1 == IF m0 < 0 THEN dt.y - 1 ELSE dt.y
      m1 == (IF m0 < 0 THEN m0 + 12 ELSE m0) + 1
  IN IF dt.d <= DaysIn(y1, m1) THEN [y |-> y1, m |-> m1, d |-> dt.d]
     ELSE IF m1 = 12 THEN [y |-> y1 + 1, m |-> 1, d |-> dt.d - DaysIn(y1, m1)]
     ELSE [y |-> y1, m |-> m1 + 1, d |-> dt.d - DaysIn(y1, m1)]

\* itemDate > cutoff, itemDate at 00:00:00.000 and cutoff at the time of day of now:
\* on the same day the item is not later
DateAfter(a, b) ==
  /\ a # InvalidDate
  /\ \/ a.y > b.y
     \/ a.y = b.y /\ a.m > b.m
     \/ a.y = b.y /\ a.m = b.m /\ a.d > b.d

(***************************************************************************)
(* State                                                                  *)
(***************************************************************************)
VARIABLES
  movies,      \* the rows of table movies of the content store
  tv_shows,    \* the rows of table tv_shows
  now,         \* new Date(): the current date
  tmdbApiKey,  \* Deno.env.get('TMDB_API_KEY') ?? ''
  pc,          \* where the edge function's handler is
  req,         \* the request being served: [method, type]
  xml,         \* the generator's local xml, the document under construction
  people,      \* the people collected by generatePersonSitemap
  page,        \* its loop variable
  error,       \* the error thrown and not yet caught, or NULL
  response,    \* the Response the handler returned, or NULL
  log,         \* what this request did: generators invoked, queries, fetches
  bpc,         \* where the browser's call of a SitemapGenerator method is
  bcall,       \* that call: [method, limit]
  bxml,        \* its local xml
  bresult,     \* what the call returned or threw, or NULL
  blog,        \* what this call did: its queries and how they answered
  failed,      \* whether an earlier request or call ended in an error
  item,        \* a content record handed to the ranker and the classifier
  ranked,      \* what they returned for it, or NULL
  call,        \* a call of a function of the serializer: [fn, its argument]
  returned,    \* what the call returned: [fn, its value]
  ai_chat_usage_limits,  \* the rows of table ai_chat_usage_limits
  frames,      \* the call of a stored procedure each connection is running
  started,     \* how many calls of the procedures were made
  clock,       \* now() of the database, in days
  loop,        \* the fetch loop of generatePersonSitemap, people counted
  imp          \* the request the trending import is serving

vars == <<movies, tv_shows, now, tmdbApiKey, pc, req, xml, people, page, error,
          response, log, bpc, bcall, bxml, bresult, blog, failed, item, ranked,
          call, returned, ai_chat_usage_limits, frames, started, clock, loop, imp>>

storeVars == <<movies, tv_shows>>

edgeVars == <<pc, req, xml, people, page, error, response, log>>

browserVars == <<bpc, bcall, bxml, bresult, blog>>

rankVars == <<item, ranked>>

callVars == <<call, returned>>

limitVars == <<ai_chat_usage_limits, frames, started, clock>>

jobVars == <<loop, imp>>

(***************************************************************************)
(* Priority Ranker and Change-Frequency Classifier                         *)
(***************************************************************************)
\* 'release_date' in item ? item.release_date : (item as TVShow).first_air_date
PrimaryDate(it) ==
  IF "release_date" \in DOMAIN it THEN it.release_date ELSE it.first_air_date

\* item.release_date || item.first_air_date
BrowserPrimaryDate(it) ==
  IF "release_date" \in DOMAIN it /\ Truthy(it.release_date) THEN it.release_date
  ELSE IF "first_air_date" \in DOMAIN it THEN it.first_air_date
  ELSE NULL

\* if (releaseDate) { ... itemDate > cutoff }, cutoff = now with setMonth(getMonth() - k)
WithinMonths(releaseDate, k) ==
  Truthy(releaseDate) /\ DateAfter(ParseDate(releaseDate[1]), SetMonthBack(now, k))

\* PriorityOf with each bonus 0.1 and no Math.min, no final clamp
PriorityOf_unclamped(popularity, voteAverage, recent) ==
  LET base == IF popularity > 1000 THEN 90
              ELSE IF popularity > 500 THEN 85
              ELSE IF popularity > 200 THEN 75
              ELSE IF popularity > 100 THEN 65
              ELSE 60
      rated == IF voteAverage >= 80 THEN base + 10 ELSE base
  IN IF recent THEN rated + 10 ELSE rated

\* PriorityOf with the popularity steps at >= instead of >
PriorityOf_inclusive(popularity, voteAverage, recent) ==
  LET base == IF popularity >= 1000 THEN 90
              ELSE IF popularity >= 500 THEN 85
              ELSE IF popularity >= 200 THEN 75
              ELSE IF popularity >= 100 THEN 65
              ELSE 60
      rated == IF voteAverage >= 80 THEN Min2(100, base + 5) ELSE base
      dated == IF recent THEN Min2(100, rated + 5) ELSE rated
  IN Min2(100, Max2(50, dated))

\* PriorityOf with the values of two steps exchanged
PriorityOf_exchanged(popularity, voteAverage, recent) ==
  LET base == IF popularity > 1000 THEN 90
              ELSE IF popularity > 500 THEN 75
              ELSE IF popularity > 200 THEN 85
              ELSE IF popularity > 100 THEN 65
              ELSE 60
      rated == IF voteAverage >= 80 THEN Min2(100, base + 5) ELSE base
      dated == IF recent THEN Min2(100, rated + 5) ELSE rated
  IN Min2(100, Max2(50, dated))

PriorityOf(popularity, voteAverage, recent) ==
  LET base == IF popularity > 1000 THEN 90
              ELSE IF popularity > 500 THEN 85
              ELSE IF popularity > 200 THEN 75
              ELSE IF popularity > 100 THEN 65
              ELSE 60
      rated == IF voteAverage >= 80 THEN Min2(100, base + 5) ELSE base
      dated == IF recent THEN Min2(100, rated + 5) ELSE rated
  IN Min2(100, Max2(50, dated))

calculatePriority(it) ==
  PriorityOf(NumberOr0(it.popularity), NumberOr0(it.vote_average),
             WithinMonths(PrimaryDate(it), 6))

SitemapGenerator_calculatePriority(it) ==
  PriorityOf(NumberOr0(it.popularity), NumberOr0(it.vote_average),
             WithinMonths(BrowserPrimaryDate(it), 6))

\* calculateChangefreq without the test of in_production
calculateChangefreq_unflagged(it) ==
  IF WithinMonths(PrimaryDate(it), 3) THEN "weekly" ELSE "monthly"

calculateChangefreq(it) ==
  IF "in_production" \in DOMAIN it /\ it.in_production = Some(TRUE) THEN "weekly"
  ELSE IF WithinMonths(PrimaryDate(it), 3) THEN "weekly"
  ELSE "monthly"

SitemapGenerator_calculateChangefreq(it) ==
  IF "in_production" \in DOMAIN it /\ it.in_production = Some(TRUE) THEN "weekly"
  ELSE IF WithinMonths(BrowserPrimaryDate(it), 3) THEN "weekly"
  ELSE "monthly"

(***************************************************************************)
(* Inputs: the rows the content store may hold, what the external API      *)
(* returns, the requests                                                   *)
(***************************************************************************)
\* at most this many rows in the content store
MaxRows == 2

\* the browser's limit argument is 1..MaxLimit or the default
MaxLimit == 1

\* people in one page of the external API's answer
PageLen == 1

MovieRows ==
  {[id |-> 42, slug |-> Some("42-up"), title |-> Some("Up"), original_title |-> Some("Up"),
    popularity |-> Some(1500), vote_average |-> Some(85),
    release_date |-> Some("2025-10-01"), updated_at |-> Some("2025-10-30T08:15:00Z"),
    poster_path |-> Some("/p.jpg"), backdrop_path |-> Some("/b.jpg")],
   [id |-> 7, slug |-> NULL, title |-> Some("Hit"), original_title |-> Some("Hit"),
    popularity |-> Some(9000), vote_average |-> Some(90),
    release_date |-> Some("2025-09-01"), updated_at |-> Some("2025-09-02T00:00:00Z"),
    poster_path |-> Some("/h.jpg"), backdrop_path |-> NULL],
   [id |-> 8, slug |-> Some(""), title |-> Some("E"), original_title |-> NULL,
    popularity |-> Some(600), vote_average |-> Some(79),
    release_date |-> Some("2020-01-01"), updated_at |-> NULL,
    poster_path |-> NULL, backdrop_path |-> NULL],
   [id |-> 9, slug |-> Some("9-a-b"), title |-> NULL, original_title |-> Some("A&B"),
    popularity |-> NULL, vote_average |-> NULL,
    release_date |-> NULL, updated_at |-> Some("not a date"),
    poster_path |-> Some("/a.jpg"), backdrop_path |-> NULL]}

TvRows ==
  {[id |-> 100, slug |-> Some("100-s"), name |-> Some("S"), original_name |-> Some("S"),
    popularity |-> Some(250), vote_average |-> Some(80),
    first_air_date |-> Some("2019-05-05"), in_production |-> Some(TRUE),
    updated_at |-> Some("2025-11-01T10:00:00Z"),
    poster_path |-> NULL, backdrop_path |-> Some("/s.jpg")],
   [id |-> 101, slug |-> NULL, name |-> Some("N"), original_name |-> Some("N"),
    popularity |-> Some(5000), vote_average |-> Some(95),
    first_air_date |-> Some("2025-10-10"), in_production |-> Some(TRUE),
    updated_at |-> NULL, poster_path |-> NULL, backdrop_path |-> NULL],
   [id |-> 102, slug |-> Some(""), name |-> Some("Q"), original_name |-> NULL,
    popularity |-> Some(50), vote_average |-> NULL,
    first_air_date |-> NULL, in_production |-> Some(FALSE),
    updated_at |-> NULL, poster_path |-> NULL, backdrop_path |-> NULL]}

Persons ==
  <<[id |-> 287, name |-> "Al Po", profile_path |-> Some("/a.jpg"),
     popularity |-> Some(400), known_for_department |-> Some("Acting")],
    [id |-> 5, name |-> "O'D  & Co", profile_path |-> Some("/o.jpg"),
     popularity |-> Some(300), known_for_department |-> NULL],
    [id |-> 6, name |-> "X-Y", profile_path |-> NULL,
     popularity |-> Some(200), known_for_department |-> NULL]>>

\* data.results of page p of /person/popular, when the page has results
PageResults(p) == [i \in 1..PageLen |-> Persons[((p + i) % Len(Persons)) + 1]]

\* what one fetch of a page may do
FetchOutcomes == {"results", "empty", "notok", "throws"}

Methods == {"GET", "OPTIONS"}

\* url.searchParams.get('type'): null when the parameter is missing
Types == {NULL, Some(""), Some("main"), Some("movies"), Some("tvshows"),
          Some("people"), Some("index"), Some("bogus")}

Nows == {[y |-> 2025, m |-> 11, d |-> 6], [y |-> 2025, m |-> 8, d |-> 31],
         [y |-> 2026, m |-> 3, d |-> 15]}

(***************************************************************************)
(* The strings the assemblers build: template literals, createSlugFromName,*)
(* the image objects                                                       *)
(***************************************************************************)
\* `${x}` of a nullable string
Str(o) == IF o = NULL THEN "null" ELSE o[1]

\* a || b of two nullable strings
OrElse(a, b) == IF Truthy(a) THEN a ELSE b

\* date ? new Date(date).getFullYear() : '' inside a template literal
YearOf(date) ==
  IF ~Truthy(date) THEN ""
  ELSE IF ParseDate(date[1]) = InvalidDate THEN "NaN"
  ELSE Pad4(ParseDate(date[1]).y)

RECURSIVE NatToString(_)
NatToString(n) ==
  IF n < 10 THEN DigitChars[n + 1] ELSE NatToString(n \div 10) \o DigitChars[(n % 10) + 1]

UpperChars == "ABCDEFGHIJKLMNOPQRSTUVWXYZ"

LowerChars == "abcdefghijklmnopqrstuvwxyz"

\* c.toLowerCase() of one character
LowerOf(c) ==
  IF \E i \in 1..26 : SubSeq(UpperChars, i, i) = c
  THEN LET i == CHOOSE i \in 1..26 : SubSeq(UpperChars, i, i) = c
       IN SubSeq(LowerChars, i, i)
  ELSE c

\* \w
IsWord(c) ==
  \/ \E i \in 1..26 : SubSeq(LowerChars, i, i) = c \/ SubSeq(UpperChars, i, i) = c
  \/ IsDigit(c)
  \/ c = "_"

\* \s
IsSpace(c) == c = " "

RECURSIVE MapChars(_, _)
\* the string with every character c replaced by f[c], f one of the steps below
MapChars(str, step) ==
  IF Len(str) = 0 THEN ""
  ELSE LET c == SubSeq(str, 1, 1)
           r == CASE step = "lower" -> LowerOf(c)
                  [] step = "strip" -> IF IsWord(c) \/ IsSpace(c) \/ c = "-" THEN c ELSE ""
           IN r \o MapChars(SubSeq(str, 2, Len(str)), step)

RECURSIVE Squeeze(_, _, _)
\* .replace(/c+/g, '-') for c a space (\s+) or a dash (-+): every run becomes one '-'
Squeeze(str, c, inRun) ==
  IF Len(str) = 0 THEN ""
  ELSE IF SubSeq(str, 1, 1) = c
       THEN (IF inRun THEN "" ELSE "-") \o Squeeze(SubSeq(str, 2, Len(str)), c, TRUE)
       ELSE SubSeq(str, 1, 1) \o Squeeze(SubSeq(str, 2, Len(str)), c, FALSE)

\* str.substring(0, n)
Substring0(str, n) == IF Len(str) > n THEN SubSeq(str, 1, n) ELSE str

createSlugFromName(id, name) ==
  LET cleanName ==
        Substring0(Squeeze(Squeeze(MapChars(MapChars(name, "lower"), "strip"),
                                   " ", FALSE), "-", FALSE), 50)
  IN NatToString(id) \o "-" \o cleanName

staticPages ==
  <<[path |-> "/", priority |-> 100, changefreq |-> "daily"],
    [path |-> "/search", priority |-> 80, changefreq |-> "daily"],
    [path |-> "/discover-lists", priority |-> 70, changefreq |-> "weekly"],
    [path |-> "/about", priority |-> 50, changefreq |-> "monthly"],
    [path |-> "/privacy", priority |-> 30, changefreq |-> "yearly"],
    [path |-> "/terms", priority |-> 30, changefreq |-> "yearly"],
    [path |-> "/contact", priority |-> 40, changefreq |-> "monthly"]>>

\* sitemaps with two entries exchanged
sitemaps_exchanged ==
  <<BASE_URL \o "/sitemap-main.xml", BASE_URL \o "/sitemap-tvshows.xml",
    BASE_URL \o "/sitemap-movies.xml", BASE_URL \o "/sitemap-people.xml">>

sitemaps ==
  <<BASE_URL \o "/sitemap-main.xml", BASE_URL \o "/sitemap-movies.xml",
    BASE_URL \o "/sitemap-tvshows.xml", BASE_URL \o "/sitemap-people.xml">>

\* MovieImages pushing the backdrop before the poster
MovieImages_swapped(movie) ==
  (IF Truthy(movie.backdrop_path)
   THEN <<[loc     |-> TMDB_IMAGE_BASE \o movie.backdrop_path[1],
           title   |-> OrElse(movie.title, movie.original_title),
           caption |-> Some(Str(movie.title) \o " - Movie Backdrop")]>>
   ELSE <<>>)
  \o
  (IF Truthy(movie.poster_path)
   THEN <<[loc     |-> TMDB_IMAGE_BASE \o movie.poster_path[1],
           title   |-> OrElse(movie.title, movie.original_title),
           caption |-> Some(Str(movie.title) \o " (" \o YearOf(movie.release_date)
                            \o ") - Movie Poster")]>>
   ELSE <<>>)

MovieImages(movie) ==
  (IF Truthy(movie.poster_path)
   THEN <<[loc     |-> TMDB_IMAGE_BASE \o movie.poster_path[1],
           title   |-> OrElse(movie.title, movie.original_title),
           caption |-> Some(Str(movie.title) \o " (" \o YearOf(movie.release_date)
                            \o ") - Movie Poster")]>>
   ELSE <<>>)
  \o
  (IF Truthy(movie.backdrop_path)
   THEN <<[loc     |-> TMDB_IMAGE_BASE \o movie.backdrop_path[1],
           title   |-> OrElse(movie.title, movie.original_title),
           caption |-> Some(Str(movie.title) \o " - Movie Backdrop")]>>
   ELSE <<>>)

ShowImages(show) ==
  (IF Truthy(show.poster_path)
   THEN <<[loc     |-> TMDB_IMAGE_BASE \o show.poster_path[1],
           title   |-> OrElse(show.name, show.original_name),
           caption |-> Some(Str(show.name) \o " (" \o YearOf(show.first_air_date)
                            \o ") - TV Show Poster")]>>
   ELSE <<>>)
  \o
  (IF Truthy(show.backdrop_path)
   THEN <<[loc     |-> TMDB_IMAGE_BASE \o show.backdrop_path[1],
           title   |-> OrElse(show.name, show.original_name),
           caption |-> Some(Str(show.name) \o " - TV Show Backdrop")]>>
   ELSE <<>>)

PersonImages(person) ==
  IF Truthy(person.profile_path)
  THEN <<[loc     |-> TMDB_IMAGE_BASE \o person.profile_path[1],
          title   |-> Some(person.name),
          caption |-> Some(person.name \o " - " \o
                           Str(OrElse(person.known_for_department, Some("Actor"))))]>>
  ELSE <<>>

(***************************************************************************)
(* Alternate-Link Builder and XML URL Serializer                           *)
(***************************************************************************)
\* generateAlternates with x-default pointing at the path without a language
generateAlternates_bare(path) ==
  [i \in 1..Len(SUPPORTED_LANGUAGES) |->
     [hreflang |-> SUPPORTED_LANGUAGES[i],
      href     |-> BASE_URL \o "/" \o SUPPORTED_LANGUAGES[i] \o path]]
  \o <<[hreflang |-> "x-default", href |-> BASE_URL \o path]>>

\* generateAlternates with unshift in place of push: x-default comes first
generateAlternates_unshift(path) ==
  <<[hreflang |-> "x-default", href |-> BASE_URL \o "/en" \o path]>>
  \o [i \in 1..Len(SUPPORTED_LANGUAGES) |->
        [hreflang |-> SUPPORTED_LANGUAGES[i],
         href     |-> BASE_URL \o "/" \o SUPPORTED_LANGUAGES[i] \o path]]

generateAlternates(path) ==
  [i \in 1..Len(SUPPORTED_LANGUAGES) |->
     [hreflang |-> SUPPORTED_LANGUAGES[i],
      href     |-> BASE_URL \o "/" \o SUPPORTED_LANGUAGES[i] \o path]]
  \o <<[hreflang |-> "x-default", href |-> BASE_URL \o "/en" \o path]>>

\* this.baseUrl of the exported sitemapGenerator = new SitemapGenerator()
this_baseUrl == BASE_URL

SitemapGenerator_generateAlternates(path) ==
  [i \in 1..Len(BROWSER_LANGUAGES) |->
     [hreflang |-> BROWSER_LANGUAGES[i],
      href     |-> this_baseUrl \o "/" \o BROWSER_LANGUAGES[i] \o path]]
  \o <<[hreflang |-> "x-default", href |-> this_baseUrl \o "/en" \o path]>>

\* str.replace(/c/g, rep) for a one-character c
RECURSIVE ReplaceAll(_, _, _)
ReplaceAll(str, c, rep) ==
  IF Len(str) = 0 THEN ""
  ELSE (IF SubSeq(str, 1, 1) = c THEN rep ELSE SubSeq(str, 1, 1))
       \o ReplaceAll(SubSeq(str, 2, Len(str)), c, rep)

\* EscapeChain with the replace of & last
EscapeChain_late(str) ==
  ReplaceAll(ReplaceAll(ReplaceAll(ReplaceAll(ReplaceAll(str,
    "<", "&lt;"), ">", "&gt;"), "\"", "&quot;"), "'", "&apos;"), "&", "&amp;")

EscapeChain(str) ==
  ReplaceAll(ReplaceAll(ReplaceAll(ReplaceAll(ReplaceAll(str,
    "&", "&amp;"), "<", "&lt;"), ">", "&gt;"), "\"", "&quot;"), "'", "&apos;")

Range(f) == {f[i] : i \in DOMAIN f}

\* the paths the assemblers of this model are given
Paths ==
  {staticPages[k].path : k \in DOMAIN staticPages}
  \cup {"/movie/" \o Str(r.slug) : r \in {m \in MovieRows : m.slug # NULL}}
  \cup {"/tv_show/" \o Str(r.slug) : r \in {t \in TvRows : t.slug # NULL}}
  \cup {"/person/" \o createSlugFromName(Persons[k].id, Persons[k].name) :
          k \in DOMAIN Persons}

ImageObjects ==
  UNION ({Range(MovieImages(r)) : r \in MovieRows}
         \cup {Range(ShowImages(r)) : r \in TvRows}
         \cup {Range(PersonImages(Persons[k])) : k \in DOMAIN Persons})

\* the strings they hand to escapeXml
Serialized ==
  UNION {{a.href : a \in Range(generateAlternates(path))
                       \cup Range(SitemapGenerator_generateAlternates(path))} :
         path \in Paths}
  \cup {img.loc : img \in ImageObjects}
  \cup {img.title[1] : img \in {i \in ImageObjects : i.title # NULL}}
  \cup {img.caption[1] : img \in ImageObjects}
  \cup Range(sitemaps)

\* EscapeChain over the strings the assemblers of this model serialize, worked
\* out once: EscapeTable[str] = EscapeChain(str) for every str of its domain
EscapeTable == [str \in Serialized |-> EscapeChain(str)]

Escaped(str) == IF str \in Serialized THEN EscapeTable[str] ELSE EscapeChain(str)

\* the edge function's escapeXml: if (!str) return ''
escapeXml(str) == IF str = "" THEN "" ELSE Escaped(str)

SitemapGenerator_escapeXml(str) == Escaped(str)

\* priority.toFixed(1): one decimal digit.  Which digit a value half way gets
\* depends on its binary value (0.85 prints 0.8, 0.8500000000000001 prints 0.9);
\* the model rounds half up.
ToFixed1(p) ==
  LET t == (p + 5) \div 10
  IN DigitChars[(t \div 10) + 1] \o "." \o DigitChars[(t % 10) + 1]

\* `${priority}`: the shortest decimal, 1 for 1.0, 0.9 for 0.9, 0.65 for 0.65
NumberToString(p) ==
  IF p % 100 = 0 THEN DigitChars[(p \div 100) + 1]
  ELSE IF p % 10 = 0
       THEN DigitChars[(p \div 100) + 1] \o "." \o DigitChars[((p \div 10) % 10) + 1]
  ELSE DigitChars[(p \div 100) + 1] \o "." \o Pad2(p % 100)

\* the <image:image> block of one image
XmlImage(img) ==
  [loc     |-> escapeXml(img.loc),
   title   |-> IF Truthy(img.title) THEN Some(escapeXml(img.title[1])) ELSE NULL,
   caption |-> IF Truthy(img.caption) THEN Some(escapeXml(img.caption[1])) ELSE NULL]

\* The <url> element generateXmlUrl writes, as its children: an absent optional
\* child is NULL, links and images are the xhtml:link and image:image children.
generateXmlUrl(url) ==
  [loc        |-> escapeXml(url.loc),
   lastmod    |-> IF Truthy(url.lastmod) THEN url.lastmod ELSE NULL,
   changefreq |-> IF Truthy(url.changefreq) THEN url.changefreq ELSE NULL,
   priority   |-> IF url.priority # NULL THEN Some(ToFixed1(url.priority[1])) ELSE NULL,
   links      |-> [i \in 1..Len(url.alternates) |->
                    [hreflang |-> url.alternates[i].hreflang,
                     href     |-> escapeXml(url.alternates[i].href)]],
   images     |-> [i \in 1..Len(url.images) |-> XmlImage(url.images[i])]]

\* the strings of a loop, one after the other
RECURSIVE Flatten(_)
Flatten(ss) == IF ss = <<>> THEN <<>> ELSE Head(ss) \o Flatten(Tail(ss))

\* The string generateXmlUrl returns, as the markup it is made of: a start tag,
\* an end tag, the text between them, or the empty element <xhtml:link ... />
StartTag(name) == [kind |-> "start", name |-> name, text |-> "", hreflang |-> ""]

EndTag(name) == [kind |-> "end", name |-> name, text |-> "", hreflang |-> ""]

Text(str) == [kind |-> "text", name |-> "", text |-> str, hreflang |-> ""]

\* `<name>${str}</name>`
Element(name, str) == <<StartTag(name), Text(str), EndTag(name)>>

\* `<xhtml:link rel="alternate" hreflang="${alt.hreflang}" href="${href}" />`
LinkTag(hreflang, href) ==
  [kind |-> "empty", name |-> "xhtml:link", text |-> href, hreflang |-> hreflang]

\* url.images.forEach(img => { ... })
ImageMarkup(img) ==
  <<StartTag("image:image")>>
  \o Element("image:loc", escapeXml(img.loc))
  \o (IF Truthy(img.title) THEN Element("image:title", escapeXml(img.title[1])) ELSE <<>>)
  \o (IF Truthy(img.caption) THEN Element("image:caption", escapeXml(img.caption[1]))
      ELSE <<>>)
  \o <<EndTag("image:image")>>

\* generateXmlUrl testing if (url.priority) in place of !== undefined
generateXmlUrl_xml_truthy(url) ==
  <<StartTag("url")>>
  \o Element("loc", escapeXml(url.loc))
  \o (IF Truthy(url.lastmod) THEN Element("lastmod", url.lastmod[1]) ELSE <<>>)
  \o (IF Truthy(url.changefreq) THEN Element("changefreq", url.changefreq[1]) ELSE <<>>)
  \o (IF url.priority # NULL /\ url.priority[1] # 0
      THEN Element("priority", ToFixed1(url.priority[1])) ELSE <<>>)
  \o [i \in 1..Len(url.alternates) |->
        LinkTag(url.alternates[i].hreflang, escapeXml(url.alternates[i].href))]
  \o Flatten([i \in 1..Len(url.images) |-> ImageMarkup(url.images[i])])
  \o <<EndTag("url")>>

\* generateXmlUrl, statement by statement: let xml = `<url>`; xml += ...; return xml
generateXmlUrl_xml(url) ==
  <<StartTag("url")>>
  \o Element("loc", escapeXml(url.loc))
  \o (IF Truthy(url.lastmod) THEN Element("lastmod", url.lastmod[1]) ELSE <<>>)
  \o (IF Truthy(url.changefreq) THEN Element("changefreq", url.changefreq[1]) ELSE <<>>)
  \o (IF url.priority # NULL THEN Element("priority", ToFixed1(url.priority[1])) ELSE <<>>)
  \o [i \in 1..Len(url.alternates) |->
        LinkTag(url.alternates[i].hreflang, escapeXml(url.alternates[i].href))]
  \o Flatten([i \in 1..Len(url.images) |-> ImageMarkup(url.images[i])])
  \o <<EndTag("url")>>

\* SitemapGenerator.generateXmlUrl, statement by statement
SitemapGenerator_generateXmlUrl_xml(url) ==
  <<StartTag("url")>>
  \o Element("loc", SitemapGenerator_escapeXml(url.loc))
  \o (IF Truthy(url.lastmod) THEN Element("lastmod", url.lastmod[1]) ELSE <<>>)
  \o (IF Truthy(url.changefreq) THEN Element("changefreq", url.changefreq[1]) ELSE <<>>)
  \o (IF url.priority # NULL THEN Element("priority", NumberToString(url.priority[1]))
      ELSE <<>>)
  \o [i \in 1..Len(url.alternates) |->
        LinkTag(url.alternates[i].hreflang,
                SitemapGenerator_escapeXml(url.alternates[i].href))]
  \o <<EndTag("url")>>

\* the browser's serializer: the priority as the number prints, no images
SitemapGenerator_generateXmlUrl(url) ==
  [loc        |-> SitemapGenerator_escapeXml(url.loc),
   lastmod    |-> IF Truthy(url.lastmod) THEN url.lastmod ELSE NULL,
   changefreq |-> IF Truthy(url.changefreq) THEN url.changefreq ELSE NULL,
   priority   |-> IF url.priority # NULL THEN Some(NumberToString(url.priority[1])) ELSE NULL,
   links      |-> [i \in 1..Len(url.alternates) |->
                    [hreflang |-> url.alternates[i].hreflang,
                     href     |-> SitemapGenerator_escapeXml(url.alternates[i].href)]],
   images     |-> <<>>]

(***************************************************************************)
(* The content store and its query                                         *)
(***************************************************************************)
\* a row comes before another in ORDER BY popularity DESC (NULLs first)
Before(a, b) ==
  \/ a.popularity = NULL /\ b.popularity # NULL
  \/ a.popularity # NULL /\ b.popularity # NULL /\ a.popularity[1] > b.popularity[1]

\* the orders in which ORDER BY popularity DESC may return the rows
Orderings(rows) ==
  {q \in [1..Cardinality(rows) -> rows] :
     /\ \A i, j \in DOMAIN q : i # j => q[i] # q[j]
     /\ \A i, j \in DOMAIN q : i < j => ~Before(q[j], q[i])}

Take(q, n) == SubSeq(q, 1, Min2(Len(q), n))

\* .from(table).select(...).not('slug', 'is', null)
\*   .order('popularity', { ascending: false }).limit(limit): the data it may return
Query(table, limit) ==
  {Take(q, limit) : q \in Orderings({r \in table : r.slug # NULL})}

(***************************************************************************)
(* Documents.  The xml string under construction is the root element       *)
(* opened by the header, the children written so far, and whether the      *)
(* closing tag has been written.                                           *)
(***************************************************************************)
Header(root) == [root |-> root, children |-> <<>>, closed |-> FALSE]

Append_(doc, elems) == [doc EXCEPT !.children = @ \o elems]

Close(doc) == [doc EXCEPT !.closed = TRUE]

\* no call is running: there is no xml
NoDocument == Header("none")

\* new Date().toISOString().split('T')[0]
Today == IsoDate(now)

\* movie.updated_at ? new Date(movie.updated_at).toISOString().split('T')[0] : today
Lastmod(updated_at) ==
  IF Truthy(updated_at) THEN IsoDate(ParseDate(updated_at[1])) ELSE Today

(***************************************************************************)
(* Sitemap Assemblers of the edge function                                 *)
(***************************************************************************)
\* UrlsPerLanguage writing the entry of the first language only
UrlsPerLanguage_first(path, lastmod, changefreq, priority, images) ==
  <<generateXmlUrl([loc        |-> BASE_URL \o "/" \o SUPPORTED_LANGUAGES[1] \o path,
                    lastmod    |-> Some(lastmod),
                    changefreq |-> Some(changefreq),
                    priority   |-> Some(priority),
                    alternates |-> generateAlternates(path),
                    images     |-> images])>>

\* the inner loop: one <url> per supported language
UrlsPerLanguage(path, lastmod, changefreq, priority, images) ==
  [i \in 1..Len(SUPPORTED_LANGUAGES) |->
     generateXmlUrl([loc        |-> BASE_URL \o "/" \o SUPPORTED_LANGUAGES[i] \o path,
                     lastmod    |-> Some(lastmod),
                     changefreq |-> Some(changefreq),
                     priority   |-> Some(priority),
                     alternates |-> generateAlternates(path),
                     images     |-> images])]

generateMainSitemap ==
  Close(Append_(Header("urlset"),
    Flatten([k \in 1..Len(staticPages) |->
      UrlsPerLanguage(staticPages[k].path, Today, staticPages[k].changefreq,
                      staticPages[k].priority, <<>>)])))

\* the body of for (const movie of movies)
MovieUrls(movie) ==
  UrlsPerLanguage("/movie/" \o Str(movie.slug), Lastmod(movie.updated_at),
                  calculateChangefreq(movie), calculatePriority(movie),
                  MovieImages(movie))

ShowUrls(show) ==
  UrlsPerLanguage("/tv_show/" \o Str(show.slug), Lastmod(show.updated_at),
                  calculateChangefreq(show), calculatePriority(show),
                  ShowImages(show))

\* if (movies && movies.length > 0) for (const movie of movies) ...
ContentUrls(data, kind) ==
  Flatten([k \in 1..Len(data) |->
             IF kind = "movies" THEN MovieUrls(data[k]) ELSE ShowUrls(data[k])])

generateSitemapIndex ==
  Close(Append_(Header("sitemapindex"),
    [k \in 1..Len(sitemaps) |-> [loc |-> escapeXml(sitemaps[k]), lastmod |-> Today]]))

PersonUrls(person) ==
  UrlsPerLanguage("/person/" \o createSlugFromName(person.id, person.name),
                  Today, "monthly", 70, PersonImages(person))

\* for (const person of people.slice(0, 2000)) ...
PeopleUrls(list) ==
  Flatten([k \in 1..Len(Take(list, MAX_PEOPLE)) |-> PersonUrls(list[k])])

(***************************************************************************)
(* The edge function's request handler (Deno.serve)                        *)
(***************************************************************************)
Event(ev, n, res) == [ev |-> ev, n |-> n, res |-> res]

Logged(ev, n, res) == log \o <<Event(ev, n, res)>>

\* throw: the catch blocks on the way out write the error to the console
Thrown(message) == Event("throw", 0, message)

\* new Date(row.updated_at).toISOString() throws RangeError on an Invalid Date
LastmodThrows(row) ==
  Truthy(row.updated_at) /\ ParseDate(row.updated_at[1]) = InvalidDate

\* the rows the loop gets through before toISOString throws (all, when none does)
RowsBeforeThrow(data) ==
  IF \E k \in 1..Len(data) : LastmodThrows(data[k])
  THEN SubSeq(data, 1, (CHOOSE k \in 1..Len(data) :
                          /\ LastmodThrows(data[k])
                          /\ \A j \in 1..(k - 1) : ~LastmodThrows(data[j])) - 1)
  ELSE data

\* no request, no call
NoRequest == [method |-> "none", type |-> NULL]

NoCall == [method |-> "none", limit |-> 0]

\* a request arrives; the model watches the latest request or call
Receive(method, type) ==
  /\ pc = "idle" /\ bpc = "idle"
  /\ req' = [method |-> method, type |-> type]
  /\ pc' = "serve"
  /\ response' = NULL
  /\ log' = <<>>
  /\ bcall' = NoCall
  /\ bresult' = NULL
  /\ blog' = <<>>
  /\ UNCHANGED <<storeVars, now, tmdbApiKey, xml, people, page, error,
                 bpc, bxml, failed, rankVars, callVars, limitVars, jobVars>>

\* if (req.method === "OPTIONS") return new Response(null, { status: 200, ... })
Options ==
  /\ pc = "serve" /\ req.method = "OPTIONS"
  /\ response' = Some([status |-> 200, contentType |-> NULL, cacheControl |-> NULL,
                       body |-> [kind |-> "null"]])
  /\ pc' = "idle"
  /\ UNCHANGED <<storeVars, now, tmdbApiKey, req, xml, people, page, error, log,
                 browserVars, failed, rankVars, callVars, limitVars, jobVars>>

\* Configure without the check of the key
Configure_unchecked ==
  /\ pc = "serve" /\ req.method # "OPTIONS"
  /\ log' = Logged("createClient", 0, "")
  /\ pc' = "switch"
  /\ UNCHANGED <<storeVars, now, tmdbApiKey, req, xml, people, page, error, response,
                 browserVars, failed, rankVars, callVars, limitVars, jobVars>>

\* Configure with a module-level flag: once a request failed, every later one
\* is refused
Configure_tripped ==
  /\ pc = "serve" /\ req.method # "OPTIONS"
  /\ IF tmdbApiKey = "" \/ failed
     THEN /\ log' = Logged("createClient", 0, "")
                      \o <<Thrown("TMDB_API_KEY environment variable is required")>>
          /\ error' = Some("TMDB_API_KEY environment variable is required")
          /\ pc' = "catch"
     ELSE /\ log' = Logged("createClient", 0, "")
          /\ error' = error
          /\ pc' = "switch"
  /\ UNCHANGED <<storeVars, now, tmdbApiKey, req, xml, people, page, response,
                 browserVars, failed, rankVars, callVars, limitVars, jobVars>>

\* createClient(...); const tmdbApiKey = ...; if (!tmdbApiKey) throw new Error(...)
Configure ==
  /\ pc = "serve" /\ req.method # "OPTIONS"
  /\ IF tmdbApiKey = ""
     THEN /\ log' = Logged("createClient", 0, "")
                      \o <<Thrown("TMDB_API_KEY environment variable is required")>>
          /\ error' = Some("TMDB_API_KEY environment variable is required")
          /\ pc' = "catch"
     ELSE /\ log' = Logged("createClient", 0, "")
          /\ error' = error
          /\ pc' = "switch"
  /\ UNCHANGED <<storeVars, now, tmdbApiKey, req, xml, people, page, response,
                 browserVars, failed, rankVars, callVars, limitVars, jobVars>>

\* const type = url.searchParams.get('type') || 'index'
TypeOf(r) == IF Truthy(r.type) THEN r.type[1] ELSE "index"

\* case 'main': xml = await generateMainSitemap()
CaseMain ==
  /\ pc = "switch" /\ TypeOf(req) = "main"
  /\ log' = Logged("generateMainSitemap", 0, "")
  /\ xml' = generateMainSitemap
  /\ pc' = "respond"
  /\ UNCHANGED <<storeVars, now, tmdbApiKey, req, people, page, error, response,
                 browserVars, failed, rankVars, callVars, limitVars, jobVars>>

\* case 'movies': generateMoviesSitemap(supabase) up to its await of the query
CaseMovies ==
  /\ pc = "switch" /\ TypeOf(req) = "movies"
  /\ log' = Logged("generateMoviesSitemap", 0, "")
  /\ xml' = Header("urlset")
  /\ pc' = "query"
  /\ UNCHANGED <<storeVars, now, tmdbApiKey, req, people, page, error, response,
                 browserVars, failed, rankVars, callVars, limitVars, jobVars>>

\* case 'tvshows': generateTVShowsSitemap(supabase) up to its await of the query
CaseTVShows ==
  /\ pc = "switch" /\ TypeOf(req) = "tvshows"
  /\ log' = Logged("generateTVShowsSitemap", 0, "")
  /\ xml' = Header("urlset")
  /\ pc' = "query"
  /\ UNCHANGED <<storeVars, now, tmdbApiKey, req, people, page, error, response,
                 browserVars, failed, rankVars, callVars, limitVars, jobVars>>

\* case 'people': generatePersonSitemap(tmdbApiKey) up to its first fetch
CasePeople ==
  /\ pc = "switch" /\ TypeOf(req) = "people"
  /\ log' = Logged("generatePersonSitemap", 0, "")
  /\ xml' = Header("urlset")
  /\ people' = <<>>
  /\ page' = 1
  /\ pc' = "fetch"
  /\ UNCHANGED <<storeVars, now, tmdbApiKey, req, error, response,
                 browserVars, failed, rankVars, callVars, limitVars, jobVars>>

\* the default case falling to the main sitemap
CaseDefault_main ==
  /\ pc = "switch" /\ TypeOf(req) \notin {"main", "movies", "tvshows", "people"}
  /\ log' = Logged("generateMainSitemap", 0, "")
  /\ xml' = generateMainSitemap
  /\ pc' = "respond"
  /\ UNCHANGED <<storeVars, now, tmdbApiKey, req, people, page, error, response,
                 browserVars, failed, rankVars, callVars, limitVars, jobVars>>

\* case 'index': default: xml = await generateSitemapIndex()
CaseDefault ==
  /\ pc = "switch" /\ TypeOf(req) \notin {"main", "movies", "tvshows", "people"}
  /\ log' = Logged("generateSitemapIndex", 0, "")
  /\ xml' = generateSitemapIndex
  /\ pc' = "respond"
  /\ UNCHANGED <<storeVars, now, tmdbApiKey, req, people, page, error, response,
                 browserVars, failed, rankVars, callVars, limitVars, jobVars>>

\* the query of generateMoviesSitemap / generateTVShowsSitemap answers: an error
\* is logged and thrown; the rows are written, and the document closed, unless
\* toISOString throws on the way
QueryAnswers ==
  /\ pc = "query"
  /\ \/ /\ log' = Logged("query", 0, "error") \o <<Thrown("store error")>>
        /\ error' = Some("store error")
        /\ xml' = xml
        /\ pc' = "catch"
     \/ \E data \in Query(IF TypeOf(req) = "movies" THEN movies ELSE tv_shows,
                          MAX_URLS_PER_SITEMAP) :
          LET done == RowsBeforeThrow(data)
              written == Append_(xml, ContentUrls(done, TypeOf(req)))
          IN IF done = data
             THEN /\ log' = Logged("query", Len(data), "data")
                  /\ xml' = Close(written)
                  /\ error' = error
                  /\ pc' = "respond"
             ELSE /\ log' = Logged("query", Len(data), "data")
                              \o <<Thrown("Invalid time value")>>
                  /\ xml' = written
                  /\ error' = Some("Invalid time value")
                  /\ pc' = "catch"
  /\ UNCHANGED <<storeVars, now, tmdbApiKey, req, people, page, response,
                 browserVars, failed, rankVars, callVars, limitVars, jobVars>>

\* FetchAnswers throwing on a response that is not ok
FetchAnswers_rethrow(outcome) ==
  /\ pc = "fetch"
  /\ CASE outcome \in {"throws", "notok"} ->
            /\ log' = Logged("fetch", page, outcome) \o <<Thrown("fetch failed")>>
            /\ error' = Some("fetch failed")
            /\ pc' = "catch"
            /\ UNCHANGED <<people, page>>
       [] outcome = "empty" ->
            /\ log' = Logged("fetch", page, outcome)
            /\ pc' = "build"
            /\ UNCHANGED <<people, page, error>>
       [] outcome = "results" ->
            /\ log' = Logged("fetch", page, outcome)
            /\ people' = people \o PageResults(page)
            /\ IF Len(people') >= MAX_PEOPLE
               THEN /\ pc' = "build"
                    /\ page' = page
               ELSE /\ page' = page + 1
                    /\ pc' = IF page + 1 <= MAX_PAGES THEN "fetch" ELSE "build"
            /\ error' = error
  /\ UNCHANGED <<storeVars, now, tmdbApiKey, req, xml, response,
                 browserVars, failed, rankVars, callVars, limitVars, jobVars>>

\* one turn of the loop of generatePersonSitemap: the fetch of page `page` answers
FetchAnswers(outcome) ==
  /\ pc = "fetch"
  /\ CASE outcome = "throws" ->
            /\ log' = Logged("fetch", page, outcome) \o <<Thrown("fetch failed")>>
            /\ error' = Some("fetch failed")
            /\ pc' = "catch"
            /\ UNCHANGED <<people, page>>
       [] outcome = "notok" ->
            \* console.error(...); break
            /\ log' = Logged("fetch", page, outcome)
            /\ pc' = "build"
            /\ UNCHANGED <<people, page, error>>
       [] outcome = "empty" ->
            /\ log' = Logged("fetch", page, outcome)
            /\ pc' = "build"
            /\ UNCHANGED <<people, page, error>>
       [] outcome = "results" ->
            /\ log' = Logged("fetch", page, outcome)
            /\ people' = people \o PageResults(page)
            /\ IF Len(people') >= MAX_PEOPLE
               THEN /\ pc' = "build"
                    /\ page' = page
               ELSE /\ page' = page + 1
                    /\ pc' = IF page + 1 <= MAX_PAGES THEN "fetch" ELSE "build"
            /\ error' = error
  /\ UNCHANGED <<storeVars, now, tmdbApiKey, req, xml, response,
                 browserVars, failed, rankVars, callVars, limitVars, jobVars>>

\* after the loop: the people collected are written and the document closed
PeopleBuild ==
  /\ pc = "build"
  /\ xml' = Close(Append_(xml, PeopleUrls(people)))
  /\ pc' = "respond"
  /\ UNCHANGED <<storeVars, now, tmdbApiKey, req, people, page, error, response, log,
                 browserVars, failed, rankVars, callVars, limitVars, jobVars>>

\* return new Response(xml, { headers: { ...corsHeaders, 'Content-Type': ... } })
Respond ==
  /\ pc = "respond"
  /\ response' = Some([status |-> 200, contentType |-> Some("application/xml"),
                       cacheControl |-> Some("public, max-age=3600"),
                       body |-> [kind |-> "xml", doc |-> xml]])
  /\ pc' = "idle"
  /\ xml' = NoDocument
  /\ people' = <<>>
  /\ page' = 0
  /\ UNCHANGED <<storeVars, now, tmdbApiKey, req, error, log,
                 browserVars, failed, rankVars, callVars, limitVars, jobVars>>

\* Catch answering with the xml written so far
Catch_partial ==
  /\ pc = "catch"
  /\ response' = Some([status |-> 200, contentType |-> Some("application/xml"),
                       cacheControl |-> Some("public, max-age=3600"),
                       body |-> [kind |-> "xml", doc |-> xml]])
  /\ error' = NULL
  /\ failed' = TRUE
  /\ pc' = "idle"
  /\ xml' = NoDocument
  /\ people' = <<>>
  /\ page' = 0
  /\ UNCHANGED <<storeVars, now, tmdbApiKey, req, log, browserVars, rankVars, callVars, limitVars, jobVars>>

\* catch (error) { return new Response(JSON.stringify({ error, message }), { status: 500 }) }
Catch ==
  /\ pc = "catch"
  /\ response' = Some([status |-> 500, contentType |-> Some("application/json"),
                       cacheControl |-> NULL,
                       body |-> [kind |-> "json", error |-> "Failed to generate sitemap",
                                 message |-> error[1]]])
  /\ error' = NULL
  /\ failed' = TRUE
  /\ pc' = "idle"
  /\ xml' = NoDocument
  /\ people' = <<>>
  /\ page' = 0
  /\ UNCHANGED <<storeVars, now, tmdbApiKey, req, log, browserVars, rankVars, callVars, limitVars, jobVars>>

(***************************************************************************)
(* The browser module: the exported sitemapGenerator                       *)
(***************************************************************************)
BrowserUrlsPerLanguage(path, lastmod, changefreq, priority) ==
  [i \in 1..Len(BROWSER_LANGUAGES) |->
     SitemapGenerator_generateXmlUrl(
       [loc        |-> this_baseUrl \o "/" \o BROWSER_LANGUAGES[i] \o path,
        lastmod    |-> Some(lastmod),
        changefreq |-> Some(changefreq),
        priority   |-> Some(priority),
        alternates |-> SitemapGenerator_generateAlternates(path)])]

SitemapGenerator_generateMainSitemap ==
  Close(Append_(Header("urlset"),
    Flatten([k \in 1..Len(staticPages) |->
      BrowserUrlsPerLanguage(staticPages[k].path, Today, staticPages[k].changefreq,
                             staticPages[k].priority)])))

SitemapGenerator_generateSitemapIndex ==
  Close(Append_(Header("sitemapindex"),
    [k \in 1..Len(sitemaps) |->
       [loc |-> SitemapGenerator_escapeXml(sitemaps[k]), lastmod |-> Today]]))

BrowserContentUrls(data, kind) ==
  Flatten([k \in 1..Len(data) |->
    BrowserUrlsPerLanguage(
      (IF kind = "movies" THEN "/movie/" ELSE "/tv_show/") \o Str(data[k].slug),
      Lastmod(data[k].updated_at),
      SitemapGenerator_calculateChangefreq(data[k]),
      SitemapGenerator_calculatePriority(data[k]))])

BrowserMethods == {"generateMainSitemap", "generateMoviesSitemap",
                   "generateTVShowsSitemap", "generateSitemapIndex"}

Limits == (1..MaxLimit) \cup {DEFAULT_LIMIT}

\* a page calls a method of sitemapGenerator, which writes its header
BrowserCall(method, limit) ==
  /\ pc = "idle" /\ bpc = "idle"
  /\ bcall' = [method |-> method, limit |-> limit]
  /\ req' = NoRequest
  /\ response' = NULL
  /\ log' = <<>>
  /\ bresult' = NULL
  /\ blog' = <<>>
  /\ bxml' = Header(IF method = "generateSitemapIndex" THEN "sitemapindex" ELSE "urlset")
  /\ bpc' = IF method \in {"generateMoviesSitemap", "generateTVShowsSitemap"}
            THEN "query" ELSE "static"
  /\ UNCHANGED <<storeVars, now, tmdbApiKey, pc, xml, people, page, error,
                 failed, rankVars, callVars, limitVars, jobVars>>

\* generateMainSitemap() and generateSitemapIndex() return their document
BrowserStatic ==
  /\ bpc = "static"
  /\ bresult' = Some([kind |-> "returned",
                      doc |-> IF bcall.method = "generateMainSitemap"
                              THEN SitemapGenerator_generateMainSitemap
                              ELSE SitemapGenerator_generateSitemapIndex])
  /\ bxml' = NoDocument
  /\ bpc' = "idle"
  /\ UNCHANGED <<storeVars, now, tmdbApiKey, edgeVars, bcall, blog, failed, rankVars, callVars, limitVars, jobVars>>

\* the query answers: { data } is destructured and the error dropped; whatever is
\* thrown inside the try is logged by the catch; the method returns its document
BrowserQueryAnswers ==
  /\ bpc = "query"
  /\ \/ \* { data: null, error }, or the await rejects
        /\ blog' = blog \o <<[ev |-> "query", n |-> 0, res |-> "error"]>>
        /\ bresult' = Some([kind |-> "returned", doc |-> Close(bxml)])
     \/ \E data \in Query(IF bcall.method = "generateMoviesSitemap"
                          THEN movies ELSE tv_shows, bcall.limit) :
          /\ blog' = blog \o <<[ev |-> "query", n |-> Len(data), res |-> "data"]>>
          /\ bresult' =
               Some([kind |-> "returned",
                     doc |-> Close(Append_(bxml,
                               BrowserContentUrls(RowsBeforeThrow(data),
                                 IF bcall.method = "generateMoviesSitemap"
                                 THEN "movies" ELSE "tvshows")))])
  /\ bxml' = NoDocument
  /\ bpc' = "idle"
  /\ UNCHANGED <<storeVars, now, tmdbApiKey, edgeVars, bcall, failed, rankVars, callVars, limitVars, jobVars>>

(***************************************************************************)
(* The ranker and the classifier on their own                              *)
(***************************************************************************)
Popularities == {NULL} \cup {Some(p) : p \in {0, 100, 101, 200, 201, 500, 501, 1000, 1001, 1500}}

Ratings == {NULL} \cup {Some(r) : r \in {0, 79, 80, 85, 100}}

PrimaryDates ==
  {NULL, Some(""), Some("soon"), Some("2020-11-06"), Some("2025-03-01"),
   Some("2025-03-03"), Some("2025-03-04"), Some("2025-05-06"), Some("2025-05-07"),
   Some("2025-07-06"), Some("2025-08-06"), Some("2025-08-07"), Some("2025-09-15"),
   Some("2025-09-16"), Some("2025-10-06"), Some("2026-02-15")}

Items ==
  {[popularity |-> p, vote_average |-> r, release_date |-> d] :
     p \in Popularities, r \in Ratings, d \in PrimaryDates}
  \cup
  {[popularity |-> p, vote_average |-> r, first_air_date |-> d, in_production |-> f] :
     p \in Popularities, r \in Ratings, d \in PrimaryDates,
     f \in {NULL, Some(TRUE), Some(FALSE)}}

\* calculatePriority(item) and calculateChangefreq(item), of both modules
Rank ==
  /\ ranked = NULL
  /\ ranked' = Some([priority         |-> calculatePriority(item),
                     changefreq       |-> calculateChangefreq(item),
                     browserPriority  |-> SitemapGenerator_calculatePriority(item),
                     browserChangefreq |-> SitemapGenerator_calculateChangefreq(item)])
  /\ UNCHANGED <<storeVars, now, tmdbApiKey, edgeVars, browserVars, failed, item, callVars, limitVars, jobVars>>

(***************************************************************************)
(* Calls of the functions of the serializer, one at a time                 *)
(***************************************************************************)
\* no call, nothing returned
NoFunction == [fn |-> "none"]

\* the paths generateAlternates is called with: it takes any string
AnyPaths ==
  Paths \cup {"", "/movie/42-title", "/tv_show/", "no-slash", "//a/../b", "/a b&c",
              "/<x>?q=\"1\"", "/en/movie/1-a"}

\* the SitemapUrl objects generateXmlUrl is called with
ImageInputs ==
  {<<>>,
   <<[loc |-> "https://image.tmdb.org/t/p/original/p.jpg", title |-> Some("Up"),
      caption |-> Some("Up (2025) - Movie Poster")]>>,
   <<[loc |-> "https://image.tmdb.org/t/p/original/a.jpg", title |-> NULL,
      caption |-> NULL],
     [loc |-> "https://image.tmdb.org/t/p/original/b.jpg", title |-> Some(""),
      caption |-> Some("A&B <1> - Movie Backdrop")]>>}

Urls ==
  {[loc |-> loc, lastmod |-> lastmod, changefreq |-> changefreq, priority |-> priority,
    alternates |-> alternates, images |-> images] :
     loc \in {"https://www.tvshowup.com/en/movie/42-up", "https://x.test/?a=1&b=<2>", ""},
     lastmod \in {NULL, Some(""), Some("2025-11-06")},
     changefreq \in {NULL, Some("weekly")},
     priority \in {NULL, Some(0), Some(85), Some(100)},
     alternates \in {<<>>, generateAlternates("/movie/42-up")},
     images \in ImageInputs}

\* generateXmlUrl(url) and this.generateXmlUrl(url)
CallXmlUrl ==
  /\ call.fn = "generateXmlUrl" /\ returned = NoFunction
  /\ returned' = [fn |-> "generateXmlUrl",
                  xml |-> generateXmlUrl_xml(call.url),
                  browserXml |-> SitemapGenerator_generateXmlUrl_xml(call.url),
                  element |-> generateXmlUrl(call.url),
                  browserElement |-> SitemapGenerator_generateXmlUrl(call.url)]
  /\ UNCHANGED <<storeVars, now, tmdbApiKey, edgeVars, browserVars, failed, rankVars,
                 call, limitVars, jobVars>>

\* the strings escapeXml is called with
Strings ==
  {"", "&", "&&", "&amp;", "&lt;", "&#38;", "<", ">", "\"", "'", "<>", "a&b<c>d\"e'f",
   "<a href=\"x\">Tom & 'Jerry'</a>", "plain text 42", "https://x.test/?a=1&b=2",
   "A&B <1> - Movie Backdrop", "O'D  & Co", "1 < 2 && 3 > 2"}

\* escapeXml(str) and this.escapeXml(str)
CallEscapeXml ==
  /\ call.fn = "escapeXml" /\ returned = NoFunction
  /\ returned' = [fn |-> "escapeXml",
                  value |-> escapeXml(call.str),
                  browserValue |-> SitemapGenerator_escapeXml(call.str)]
  /\ UNCHANGED <<storeVars, now, tmdbApiKey, edgeVars, browserVars, failed, rankVars,
                 call, limitVars, jobVars>>

\* generateAlternates(path) and this.generateAlternates(path)
CallAlternates ==
  /\ call.fn = "generateAlternates" /\ returned = NoFunction
  /\ returned' = [fn |-> "generateAlternates",
                  alternates |-> generateAlternates(call.path),
                  browserAlternates |-> SitemapGenerator_generateAlternates(call.path)]
  /\ UNCHANGED <<storeVars, now, tmdbApiKey, edgeVars, browserVars, failed, rankVars,
                 call, limitVars, jobVars>>

(***************************************************************************)
(* Specifications                                                          *)
(***************************************************************************)
Idle ==
  /\ pc = "idle"
  /\ req = NoRequest
  /\ xml = NoDocument
  /\ people = <<>>
  /\ page = 0
  /\ error = NULL
  /\ response = NULL
  /\ log = <<>>
  /\ bpc = "idle"
  /\ bcall = NoCall
  /\ bxml = NoDocument
  /\ bresult = NULL
  /\ blog = <<>>
  /\ failed = FALSE

\* new Date() of the requests
Now == [y |-> 2025, m |-> 11, d |-> 6]

\* another day the function runs on
Later == [y |-> 2026, m |-> 3, d |-> 5]

\* generatePersonSitemap is not running
NoLoop == [pc |-> "idle", page |-> 0, length |-> 0, requested |-> <<>>, written |-> 0]

\* the trending import is serving no request
NoResults == [movies |-> [imported |-> 0, errors |-> 0], tvShows |-> [imported |-> 0, errors |-> 0]]

NoImport ==
  [pc |-> "idle", contentType |-> "", pages |-> 0, kind |-> "", page |-> 0, left |-> 0,
   trace |-> <<>>, results |-> NoResults, status |-> 0]

NoJobs == loop = NoLoop /\ imp = NoImport

\* the connections that call the procedures, each running one call at a time
Calls == {1, 2}

NoFrame ==
  [fn |-> "none", pc |-> "returned", p_user_id |-> NULL, p_session_id |-> NULL,
   v_client_ip |-> "", v_base_limit |-> 0, v_now |-> 0, v_current_used |-> NULL,
   v_daily_limit |-> NULL, v_stored_ip |-> NULL, v_record |-> NULL, no |-> 0,
   result |-> NULL, row |-> NULL]

\* no call of the procedures is made
NoLimits ==
  /\ ai_chat_usage_limits = {}
  /\ frames = [c \in Calls |-> NoFrame]
  /\ started = 0
  /\ clock = 0

Init ==
  /\ movies \in SUBSET MovieRows
  /\ tv_shows \in SUBSET TvRows
  /\ Cardinality(movies) + Cardinality(tv_shows) <= MaxRows
  /\ now \in {Now, Later}
  /\ tmdbApiKey \in {"", "k"}
  /\ Idle
  /\ item = [popularity |-> NULL, vote_average |-> NULL, release_date |-> NULL]
  /\ ranked = NULL
  /\ call = NoFunction
  /\ returned = NoFunction
  /\ NoLimits
  /\ NoJobs

Next ==
  \/ \E method \in Methods, type \in Types : Receive(method, type)
  \/ Options
  \/ Configure
  \/ CaseMain
  \/ CaseMovies
  \/ CaseTVShows
  \/ CasePeople
  \/ CaseDefault
  \/ QueryAnswers
  \/ \E outcome \in FetchOutcomes : FetchAnswers(outcome)
  \/ PeopleBuild
  \/ Respond
  \/ Catch
  \/ \E method \in BrowserMethods, limit \in Limits : BrowserCall(method, limit)
  \/ BrowserStatic
  \/ BrowserQueryAnswers

Spec == Init /\ [][Next]_vars

RankInit ==
  /\ movies = {}
  /\ tv_shows = {}
  /\ now \in Nows
  /\ tmdbApiKey = "k"
  /\ Idle
  /\ item \in Items
  /\ ranked = NULL
  /\ call = NoFunction
  /\ returned = NoFunction
  /\ NoLimits
  /\ NoJobs

RankNext == Rank

RankSpec == RankInit /\ [][RankNext]_vars

SerializerInit ==
  /\ movies = {}
  /\ tv_shows = {}
  /\ now = Now
  /\ tmdbApiKey = "k"
  /\ Idle
  /\ item = [popularity |-> NULL, vote_average |-> NULL, release_date |-> NULL]
  /\ ranked = NULL
  /\ call \in {[fn |-> "generateAlternates", path |-> path] : path \in AnyPaths}
              \cup {[fn |-> "generateXmlUrl", url |-> url] : url \in Urls}
              \cup {[fn |-> "escapeXml", str |-> str] : str \in Strings}
  /\ returned = NoFunction
  /\ NoLimits
  /\ NoJobs

SerializerNext == CallAlternates \/ CallXmlUrl \/ CallEscapeXml

SerializerSpec == SerializerInit /\ [][SerializerNext]_vars

(***************************************************************************)
(* The rate limit of the AI chat: table ai_chat_usage_limits and the       *)
(* stored procedures increment_ai_chat_usage and                            *)
(* check_and_reset_ai_chat_limits, one SQL statement a step                *)
(***************************************************************************)
UserIds == {"user-1"}

SessionIds == {"session-1", "session-2"}

\* the arguments <<p_user_id, p_session_id>> of the calls: a user without and
\* with the session of the browser, and visitors with a session only
Callers ==
  {<<Some(u), NULL>> : u \in UserIds}
    \cup {<<Some(u), Some("session-1")>> : u \in UserIds}
    \cup {<<NULL, Some(s)>> : s \in SessionIds}

\* inet_client_addr(): NULL on a connection with no client address
ClientAddrs == {NULL, Some("203.0.113.7")}

MaxCalls == 2

MaxClock == 1

\* v_base_limit of a user and of a session-only caller
USER_LIMIT == 25

SESSION_LIMIT == 5

\* a row of ai_chat_usage_limits; the time columns are in days
UsageRecord(id, user_id, session_id, ip_address, daily_limit, bonus_limit, used_count, last_reset_at) ==
  [id |-> id, user_id |-> user_id, session_id |-> session_id,
   ip_address |-> ip_address, daily_limit |-> daily_limit,
   bonus_limit |-> bonus_limit, used_count |-> used_count,
   last_reset_at |-> last_reset_at]

\* the tables a first call may find: empty, a visitor's session at its last
\* prompt, a user at their last prompt whose record was written before the
\* ip_address column existed
InitialTables ==
  {{},
   {UsageRecord(1, NULL, Some("session-1"), Some("203.0.113.7"), SESSION_LIMIT, 0,
                SESSION_LIMIT - 1, 0)},
   {UsageRecord(1, Some("user-1"), NULL, NULL, USER_LIMIT, 0, USER_LIMIT - 1, 0)}}

\* the id the column's default gives to the row inserted by call number no: one
\* no other row has or had
NextId(no) == no + 1

\* RETURN value: the call is over and its locals are gone
Returned(frame, value) ==
  [NoFrame EXCEPT !.fn = frame.fn, !.p_user_id = frame.p_user_id,
                  !.p_session_id = frame.p_session_id, !.result = Some(value)]

\* WHERE user_id = p_user_id, or WHERE session_id = p_session_id: a comparison
\* with NULL matches no row
Matching(table, p_user_id, p_session_id) ==
  IF p_user_id # NULL
  THEN {r \in table : r.user_id = p_user_id}
  ELSE {r \in table : p_session_id # NULL /\ r.session_id = p_session_id}

\* the call begins: the client address with its fallback, the base limit, and
\* SELECT used_count, daily_limit, ip_address INTO ...: the values of one
\* matching row, NULLs when there is none
IncrementSelect(c) ==
  /\ frames[c].pc = "returned"
  /\ started < MaxCalls
  /\ \E caller \in Callers, addr \in ClientAddrs :
       LET p_user_id == caller[1]
           p_session_id == caller[2]
           v_client_ip == IF addr = NULL THEN "0.0.0.0" ELSE addr[1]
           v_base_limit == IF p_user_id # NULL THEN USER_LIMIT ELSE SESSION_LIMIT
           rows == Matching(ai_chat_usage_limits, p_user_id, p_session_id)
           frame(used, limit, ip) ==
             [fn |-> "increment_ai_chat_usage", pc |-> "selected",
              p_user_id |-> p_user_id, p_session_id |-> p_session_id,
              v_client_ip |-> v_client_ip, v_base_limit |-> v_base_limit,
              v_now |-> clock, v_current_used |-> used, v_daily_limit |-> limit,
              v_stored_ip |-> ip, v_record |-> NULL, no |-> started + 1,
              result |-> NULL, row |-> NULL]
       IN  IF rows = {}
           THEN frames' = [frames EXCEPT ![c] = frame(NULL, NULL, NULL)]
           ELSE \E r \in rows :
                  frames' = [frames EXCEPT
                               ![c] = frame(Some(r.used_count), Some(r.daily_limit),
                                            r.ip_address)]
  /\ started' = started + 1
  /\ UNCHANGED <<storeVars, now, tmdbApiKey, edgeVars, browserVars, failed, rankVars,
                 callVars, jobVars, ai_chat_usage_limits, clock>>

\* the procedure before the record was created on demand: no record, RETURN false
IncrementCreate_absent(c) ==
  /\ frames[c].fn = "increment_ai_chat_usage" /\ frames[c].pc = "selected"
  /\ frames[c].v_current_used = NULL
  /\ frames' = [frames EXCEPT ![c] = Returned(frames[c], FALSE)]
  /\ UNCHANGED <<storeVars, now, tmdbApiKey, edgeVars, browserVars, failed, rankVars,
                 callVars, jobVars, ai_chat_usage_limits, started, clock>>

\* IF v_current_used IS NULL: INSERT the record and RETURN true
IncrementCreate(c) ==
  /\ frames[c].fn = "increment_ai_chat_usage" /\ frames[c].pc = "selected"
  /\ frames[c].v_current_used = NULL
  /\ ai_chat_usage_limits' =
       ai_chat_usage_limits \cup
         {UsageRecord(NextId(frames[c].no), frames[c].p_user_id,
                      frames[c].p_session_id, Some(frames[c].v_client_ip),
                      frames[c].v_base_limit, 0, 1, frames[c].v_now)}
  /\ frames' = [frames EXCEPT ![c] = Returned(frames[c], TRUE)]
  /\ UNCHANGED <<storeVars, now, tmdbApiKey, edgeVars, browserVars, failed, rankVars,
                 callVars, jobVars, started, clock>>

\* the stored address is another one, or the limit is reached: RETURN false
IncrementReject(c) ==
  /\ frames[c].fn = "increment_ai_chat_usage" /\ frames[c].pc = "selected"
  /\ frames[c].v_current_used # NULL
  /\ \/ frames[c].v_stored_ip # NULL /\ frames[c].v_stored_ip[1] # frames[c].v_client_ip
     \/ frames[c].v_current_used[1] >= frames[c].v_daily_limit[1]
  /\ frames' = [frames EXCEPT ![c] = Returned(frames[c], FALSE)]
  /\ UNCHANGED <<storeVars, now, tmdbApiKey, edgeVars, browserVars, failed, rankVars,
                 callVars, jobVars, ai_chat_usage_limits, started, clock>>

\* the UPDATE without AND used_count < daily_limit
IncrementUpdate_unguarded(c) ==
  /\ frames[c].fn = "increment_ai_chat_usage" /\ frames[c].pc = "selected"
  /\ frames[c].v_current_used # NULL
  /\ ~(frames[c].v_stored_ip # NULL /\ frames[c].v_stored_ip[1] # frames[c].v_client_ip)
  /\ frames[c].v_current_used[1] < frames[c].v_daily_limit[1]
  /\ LET updated == Matching(ai_chat_usage_limits, frames[c].p_user_id,
                             frames[c].p_session_id)
     IN  /\ ai_chat_usage_limits' =
              (ai_chat_usage_limits \ updated) \cup
                {[r EXCEPT !.used_count = r.used_count + 1,
                           !.ip_address = Some(frames[c].v_client_ip)] : r \in updated}
         /\ frames' = [frames EXCEPT ![c] = Returned(frames[c], updated # {})]
  /\ UNCHANGED <<storeVars, now, tmdbApiKey, edgeVars, browserVars, failed, rankVars,
                 callVars, jobVars, started, clock>>

\* the guarded UPDATE answered true whatever ROW_COUNT says
IncrementUpdate_reported(c) ==
  /\ frames[c].fn = "increment_ai_chat_usage" /\ frames[c].pc = "selected"
  /\ frames[c].v_current_used # NULL
  /\ ~(frames[c].v_stored_ip # NULL /\ frames[c].v_stored_ip[1] # frames[c].v_client_ip)
  /\ frames[c].v_current_used[1] < frames[c].v_daily_limit[1]
  /\ LET updated == {r \in Matching(ai_chat_usage_limits, frames[c].p_user_id,
                                    frames[c].p_session_id) :
                       r.used_count < r.daily_limit}
     IN  /\ ai_chat_usage_limits' =
              (ai_chat_usage_limits \ updated) \cup
                {[r EXCEPT !.used_count = r.used_count + 1,
                           !.ip_address = Some(frames[c].v_client_ip)] : r \in updated}
         /\ frames' = [frames EXCEPT ![c] = Returned(frames[c], TRUE)]
  /\ UNCHANGED <<storeVars, now, tmdbApiKey, edgeVars, browserVars, failed, rankVars,
                 callVars, jobVars, started, clock>>

\* the UPDATE reached without the comparison of the addresses
IncrementUpdate_unvalidated(c) ==
  /\ frames[c].fn = "increment_ai_chat_usage" /\ frames[c].pc = "selected"
  /\ frames[c].v_current_used # NULL
  /\ frames[c].v_current_used[1] < frames[c].v_daily_limit[1]
  /\ LET updated == {r \in Matching(ai_chat_usage_limits, frames[c].p_user_id,
                                    frames[c].p_session_id) :
                       r.used_count < r.daily_limit}
     IN  /\ ai_chat_usage_limits' =
              (ai_chat_usage_limits \ updated) \cup
                {[r EXCEPT !.used_count = r.used_count + 1,
                           !.ip_address = Some(frames[c].v_client_ip)] : r \in updated}
         /\ frames' = [frames EXCEPT ![c] = Returned(frames[c], updated # {})]
  /\ UNCHANGED <<storeVars, now, tmdbApiKey, edgeVars, browserVars, failed, rankVars,
                 callVars, jobVars, started, clock>>

\* UPDATE ... SET used_count = used_count + 1, ip_address = v_client_ip WHERE
\* ... AND used_count < daily_limit; RETURN whether a row was updated
IncrementUpdate(c) ==
  /\ frames[c].fn = "increment_ai_chat_usage" /\ frames[c].pc = "selected"
  /\ frames[c].v_current_used # NULL
  /\ ~(frames[c].v_stored_ip # NULL /\ frames[c].v_stored_ip[1] # frames[c].v_client_ip)
  /\ frames[c].v_current_used[1] < frames[c].v_daily_limit[1]
  /\ LET updated == {r \in Matching(ai_chat_usage_limits, frames[c].p_user_id,
                                    frames[c].p_session_id) :
                       r.used_count < r.daily_limit}
     IN  /\ ai_chat_usage_limits' =
              (ai_chat_usage_limits \ updated) \cup
                {[r EXCEPT !.used_count = r.used_count + 1,
                           !.ip_address = Some(frames[c].v_client_ip)] : r \in updated}
         /\ frames' = [frames EXCEPT ![c] = Returned(frames[c], updated # {})]
  /\ UNCHANGED <<storeVars, now, tmdbApiKey, edgeVars, browserVars, failed, rankVars,
                 callVars, jobVars, started, clock>>

\* IF v_hours_since_reset >= 24, in days
RESET_AFTER == 1

\* RETURN QUERY SELECT v_record.daily_limit, 0, v_record.used_count,
\* v_record.daily_limit - v_record.used_count, v_record.last_reset_at + 24 hours:
\* the row the call returns, of NULLs when v_record is
QueryRow(v_record) ==
  IF v_record = NULL
  THEN [daily_limit |-> NULL, bonus_limit |-> Some(0), used_count |-> NULL,
        remaining |-> NULL, reset_at |-> NULL]
  ELSE [daily_limit |-> Some(v_record[1].daily_limit), bonus_limit |-> Some(0),
        used_count |-> Some(v_record[1].used_count),
        remaining |-> Some(v_record[1].daily_limit - v_record[1].used_count),
        reset_at |-> Some(v_record[1].last_reset_at + RESET_AFTER)]

ReturnedQuery(frame, v_record) ==
  [NoFrame EXCEPT !.fn = frame.fn, !.p_user_id = frame.p_user_id,
                  !.p_session_id = frame.p_session_id, !.row = Some(QueryRow(v_record))]

\* v_record.ip_address IS NOT NULL AND v_record.ip_address != v_client_ip
IpChanged(frame) ==
  /\ frame.v_record # NULL
  /\ frame.v_record[1].ip_address # NULL
  /\ frame.v_record[1].ip_address[1] # frame.v_client_ip

\* check_and_reset_ai_chat_limits begins: the client address with its fallback,
\* the base limit, and SELECT * INTO v_record: one matching row, or NULLs
CheckSelect(c) ==
  /\ frames[c].pc = "returned"
  /\ started < MaxCalls
  /\ \E caller \in Callers, addr \in ClientAddrs :
       LET p_user_id == caller[1]
           p_session_id == caller[2]
           rows == Matching(ai_chat_usage_limits, p_user_id, p_session_id)
           frame(v_record) ==
             [NoFrame EXCEPT
                !.fn = "check_and_reset_ai_chat_limits", !.pc = "selected",
                !.p_user_id = p_user_id, !.p_session_id = p_session_id,
                !.v_client_ip = IF addr = NULL THEN "0.0.0.0" ELSE addr[1],
                !.v_base_limit = IF p_user_id # NULL THEN USER_LIMIT ELSE SESSION_LIMIT,
                !.v_now = clock, !.v_record = v_record, !.no = started + 1]
       IN  IF rows = {}
           THEN frames' = [frames EXCEPT ![c] = frame(NULL)]
           ELSE \E r \in rows : frames' = [frames EXCEPT ![c] = frame(Some(r))]
  /\ started' = started + 1
  /\ UNCHANGED <<storeVars, now, tmdbApiKey, edgeVars, browserVars, failed, rankVars,
                 callVars, jobVars, ai_chat_usage_limits, clock>>

\* the address has changed: DELETE FROM ai_chat_usage_limits WHERE id =
\* v_record.id, and v_record.id := NULL
CheckDelete(c) ==
  /\ frames[c].fn = "check_and_reset_ai_chat_limits" /\ frames[c].pc = "selected"
  /\ IpChanged(frames[c])
  /\ ai_chat_usage_limits' =
       {r \in ai_chat_usage_limits : r.id # frames[c].v_record[1].id}
  /\ frames' = [frames EXCEPT ![c].pc = "deleted", ![c].v_record = NULL]
  /\ UNCHANGED <<storeVars, now, tmdbApiKey, edgeVars, browserVars, failed, rankVars,
                 callVars, jobVars, started, clock>>

\* IF v_record.id IS NULL: INSERT ... RETURNING * INTO v_record, and return it
CheckInsert(c) ==
  /\ frames[c].fn = "check_and_reset_ai_chat_limits"
  /\ frames[c].pc \in {"selected", "deleted"}
  /\ frames[c].v_record = NULL
  /\ LET inserted == UsageRecord(NextId(frames[c].no), frames[c].p_user_id,
                                 frames[c].p_session_id, Some(frames[c].v_client_ip),
                                 frames[c].v_base_limit, 0, 0, frames[c].v_now)
     IN  /\ ai_chat_usage_limits' = ai_chat_usage_limits \cup {inserted}
         /\ frames' = [frames EXCEPT ![c] = ReturnedQuery(frames[c], Some(inserted))]
  /\ UNCHANGED <<storeVars, now, tmdbApiKey, edgeVars, browserVars, failed, rankVars,
                 callVars, jobVars, started, clock>>

\* 24 hours or more since the last reset: UPDATE ... SET used_count = 0,
\* bonus_limit = 0, last_reset_at = v_now, ip_address = v_client_ip WHERE id =
\* v_record.id RETURNING * INTO v_record (NULLs when the row is gone), and
\* return it
CheckReset(c) ==
  /\ frames[c].fn = "check_and_reset_ai_chat_limits" /\ frames[c].pc = "selected"
  /\ frames[c].v_record # NULL /\ ~IpChanged(frames[c])
  /\ frames[c].v_now - frames[c].v_record[1].last_reset_at >= RESET_AFTER
  /\ LET updated == {r \in ai_chat_usage_limits : r.id = frames[c].v_record[1].id}
         reset(r) == [r EXCEPT !.used_count = 0, !.bonus_limit = 0,
                               !.last_reset_at = frames[c].v_now,
                               !.ip_address = Some(frames[c].v_client_ip)]
     IN  /\ ai_chat_usage_limits' =
              (ai_chat_usage_limits \ updated) \cup {reset(r) : r \in updated}
         /\ \/ /\ updated = {}
               /\ frames' = [frames EXCEPT ![c] = ReturnedQuery(frames[c], NULL)]
            \/ \E r \in updated :
                 frames' = [frames EXCEPT ![c] = ReturnedQuery(frames[c], Some(reset(r)))]
  /\ UNCHANGED <<storeVars, now, tmdbApiKey, edgeVars, browserVars, failed, rankVars,
                 callVars, jobVars, started, clock>>

\* fewer than 24 hours: v_record.ip_address != v_client_ip is not true (the
\* address is the client's, or NULL), no statement runs; return v_record
CheckKeep(c) ==
  /\ frames[c].fn = "check_and_reset_ai_chat_limits" /\ frames[c].pc = "selected"
  /\ frames[c].v_record # NULL /\ ~IpChanged(frames[c])
  /\ frames[c].v_now - frames[c].v_record[1].last_reset_at < RESET_AFTER
  /\ frames' = [frames EXCEPT ![c] = ReturnedQuery(frames[c], frames[c].v_record)]
  /\ UNCHANGED <<storeVars, now, tmdbApiKey, edgeVars, browserVars, failed, rankVars,
                 callVars, jobVars, ai_chat_usage_limits, started, clock>>

\* a day passes
Tick ==
  /\ clock < MaxClock
  /\ clock' = clock + 1
  /\ UNCHANGED <<storeVars, now, tmdbApiKey, edgeVars, browserVars, failed, rankVars,
                 callVars, jobVars, ai_chat_usage_limits, frames, started>>

LimitsInit ==
  /\ movies = {}
  /\ tv_shows = {}
  /\ now = Now
  /\ tmdbApiKey = "k"
  /\ Idle
  /\ item = [popularity |-> NULL, vote_average |-> NULL, release_date |-> NULL]
  /\ ranked = NULL
  /\ call = NoFunction
  /\ returned = NoFunction
  /\ ai_chat_usage_limits \in InitialTables
  /\ frames = [c \in Calls |-> NoFrame]
  /\ started = 0
  /\ clock = 0
  /\ NoJobs

LimitsNext ==
  \/ \E c \in Calls : IncrementSelect(c)
  \/ \E c \in Calls : IncrementCreate(c)
  \/ \E c \in Calls : IncrementReject(c)
  \/ \E c \in Calls : IncrementUpdate(c)
  \/ \E c \in Calls : CheckSelect(c)
  \/ \E c \in Calls : CheckDelete(c)
  \/ \E c \in Calls : CheckInsert(c)
  \/ \E c \in Calls : CheckReset(c)
  \/ \E c \in Calls : CheckKeep(c)
  \/ Tick

LimitsSpec == LimitsInit /\ [][LimitsNext]_vars

(***************************************************************************)
(* The fetch loop of generatePersonSitemap with the people counted, so     *)
(* that pages can be long enough to reach the limit of 2,000               *)
(***************************************************************************)
\* data.results.length of a page with results
PageSizes == {1, 20, 999, 1000, 1999, 2000, 2500}

Min(a, b) == IF a <= b THEN a ELSE b

\* const people = []; for (let page = 1; ...
LoopStart ==
  /\ loop.pc \in {"idle", "done", "thrown"}
  /\ loop' = [NoLoop EXCEPT !.pc = "fetch", !.page = 1]
  /\ UNCHANGED <<storeVars, now, tmdbApiKey, edgeVars, browserVars, failed, rankVars,
                 callVars, limitVars, imp>>

\* people.slice(0, 2000) written without the slice
LoopWrite_all ==
  /\ loop.pc = "write"
  /\ loop' = [loop EXCEPT !.pc = "done", !.written = loop.length]
  /\ UNCHANGED <<storeVars, now, tmdbApiKey, edgeVars, browserVars, failed, rankVars,
                 callVars, limitVars, imp>>

\* one turn of the loop: page loop.page is requested and answers
LoopFetch(outcome, size) ==
  /\ loop.pc = "fetch"
  /\ LET asked == Append(loop.requested,
                         [page |-> loop.page, outcome |-> outcome,
                          size |-> IF outcome = "results" THEN size ELSE 0])
     IN  CASE outcome = "throws" ->
                loop' = [loop EXCEPT !.pc = "thrown", !.requested = asked]
           [] outcome \in {"notok", "empty"} ->
                loop' = [loop EXCEPT !.pc = "write", !.requested = asked]
           [] outcome = "results" ->
                loop' = [loop EXCEPT
                           !.requested = asked,
                           !.length = loop.length + size,
                           !.page = IF loop.length + size >= MAX_PEOPLE
                                    THEN loop.page ELSE loop.page + 1,
                           !.pc = IF loop.length + size >= MAX_PEOPLE
                                     \/ loop.page + 1 > MAX_PAGES
                                  THEN "write" ELSE "fetch"]
  /\ UNCHANGED <<storeVars, now, tmdbApiKey, edgeVars, browserVars, failed, rankVars,
                 callVars, limitVars, imp>>

\* for (const person of people.slice(0, 2000)): the people written
LoopWrite ==
  /\ loop.pc = "write"
  /\ loop' = [loop EXCEPT !.pc = "done", !.written = Min(loop.length, MAX_PEOPLE)]
  /\ UNCHANGED <<storeVars, now, tmdbApiKey, edgeVars, browserVars, failed, rankVars,
                 callVars, limitVars, imp>>

PeopleLoopInit ==
  /\ movies = {}
  /\ tv_shows = {}
  /\ now = Now
  /\ tmdbApiKey = "k"
  /\ Idle
  /\ item = [popularity |-> NULL, vote_average |-> NULL, release_date |-> NULL]
  /\ ranked = NULL
  /\ call = NoFunction
  /\ returned = NoFunction
  /\ NoLimits
  /\ NoJobs

PeopleLoopNext ==
  \/ LoopStart
  \/ \E outcome \in FetchOutcomes, size \in PageSizes : LoopFetch(outcome, size)
  \/ LoopWrite

PeopleLoopSpec == PeopleLoopInit /\ [][PeopleLoopNext]_vars

(***************************************************************************)
(* The trending import: one loop over the pages of trending movies, one    *)
(* over the pages of trending TV shows, 300 ms after a page                *)
(***************************************************************************)
\* at most this many pages asked for in the request, when it names a number
MaxImportPages == 2

\* at most this many records in a page of the external API's answer
MaxRecords == 1

\* parseInt(url.searchParams.get('pages') || '5')
DEFAULT_PAGES == 5

\* url.searchParams.get('type'): absent, or any string
TypeParams == {NULL, Some("movie"), Some("tv"), Some("both"), Some("people")}

\* url.searchParams.get('pages') as parseInt reads it: absent, or a number (a
\* string that is no number gives NaN, and page <= NaN is false as page <= 0 is)
PagesParams == {NULL} \cup {Some(n) : n \in 0..MaxImportPages}

\* the fetch of a page: a response that is ok with its records, a response that
\* is not ok, or fetch (or response.json()) throwing
ImportOutcomes == {"ok", "notok", "throws"}

\* the upsert of a record: stored, an error returned, or a throw
RecordOutcomes == {"imported", "error", "throws"}

HasLoop(contentType, kind) == contentType = kind \/ contentType = "both"

\* where the handler goes once the loop over kind has run through page
AfterPage(frame) ==
  IF frame.page + 1 <= frame.pages
  THEN [frame EXCEPT !.pc = "fetch", !.page = frame.page + 1, !.left = 0]
  ELSE IF frame.kind = "movie" /\ HasLoop(frame.contentType, "tv")
       THEN [frame EXCEPT !.pc = "fetch", !.kind = "tv", !.page = 1, !.left = 0]
       ELSE [frame EXCEPT !.pc = "respond", !.left = 0]

\* a request arrives: the key, the parameters, and the way to the first loop
ImportReceive(type, pagesParam) ==
  /\ imp.pc \in {"idle", "done"}
  /\ LET contentType == IF Truthy(type) THEN type[1] ELSE "both"
         pages == IF pagesParam = NULL THEN DEFAULT_PAGES ELSE pagesParam[1]
         frame == [NoImport EXCEPT !.contentType = contentType, !.pages = pages]
     IN  imp' = IF tmdbApiKey = ""
                THEN [frame EXCEPT !.pc = "done", !.status = 500]
                ELSE IF pages >= 1 /\ HasLoop(contentType, "movie")
                THEN [frame EXCEPT !.pc = "fetch", !.kind = "movie", !.page = 1]
                ELSE IF pages >= 1 /\ HasLoop(contentType, "tv")
                THEN [frame EXCEPT !.pc = "fetch", !.kind = "tv", !.page = 1]
                ELSE [frame EXCEPT !.pc = "respond"]
  /\ UNCHANGED <<storeVars, now, tmdbApiKey, edgeVars, browserVars, failed, rankVars,
                 callVars, limitVars, loop>>

\* try { const response = await fetch(...page); if (response.ok) { ... } delay }
\* catch (error) { console.error(...) }: a throw leaves the try before the delay
ImportFetch(outcome, n) ==
  /\ imp.pc = "fetch"
  /\ LET asked == [imp EXCEPT !.trace = Append(imp.trace,
                      [ev |-> "request", kind |-> imp.kind, page |-> imp.page])]
     IN  imp' = CASE outcome = "throws" -> AfterPage(asked)
                  [] outcome = "notok"  -> [asked EXCEPT !.pc = "delay"]
                  [] outcome = "ok"     ->
                       [asked EXCEPT !.pc = IF n > 0 THEN "records" ELSE "delay",
                                     !.left = n]
  /\ UNCHANGED <<storeVars, now, tmdbApiKey, edgeVars, browserVars, failed, rankVars,
                 callVars, limitVars, loop>>

Counted(results, kind, outcome) ==
  LET key == IF kind = "movie" THEN "movies" ELSE "tvShows"
  IN  IF outcome = "imported"
      THEN [results EXCEPT ![key].imported = @ + 1]
      ELSE [results EXCEPT ![key].errors = @ + 1]

\* for (const movie of data.results || []) try { upsert ... } catch { errors++ }
ImportRecord(outcome) ==
  /\ imp.pc = "records" /\ imp.left > 0
  /\ imp' = [imp EXCEPT !.results = Counted(imp.results, imp.kind, outcome),
                        !.left = imp.left - 1,
                        !.pc = IF imp.left = 1 THEN "delay" ELSE "records"]
  /\ UNCHANGED <<storeVars, now, tmdbApiKey, edgeVars, browserVars, failed, rankVars,
                 callVars, limitVars, loop>>

\* await new Promise(resolve => setTimeout(resolve, 300))
ImportDelay ==
  /\ imp.pc = "delay"
  /\ imp' = AfterPage([imp EXCEPT !.trace = Append(imp.trace,
                         [ev |-> "delay", kind |-> imp.kind, page |-> imp.page])])
  /\ UNCHANGED <<storeVars, now, tmdbApiKey, edgeVars, browserVars, failed, rankVars,
                 callVars, limitVars, loop>>

\* return new Response(JSON.stringify({ success: true, results, ... }))
ImportRespond ==
  /\ imp.pc = "respond"
  /\ imp' = [imp EXCEPT !.pc = "done", !.status = 200]
  /\ UNCHANGED <<storeVars, now, tmdbApiKey, edgeVars, browserVars, failed, rankVars,
                 callVars, limitVars, loop>>

ImportInit ==
  /\ movies = {}
  /\ tv_shows = {}
  /\ now = Now
  /\ tmdbApiKey \in {"", "k"}
  /\ Idle
  /\ item = [popularity |-> NULL, vote_average |-> NULL, release_date |-> NULL]
  /\ ranked = NULL
  /\ call = NoFunction
  /\ returned = NoFunction
  /\ NoLimits
  /\ NoJobs

ImportNext ==
  \/ \E type \in TypeParams, pagesParam \in PagesParams : ImportReceive(type, pagesParam)
  \/ \E outcome \in ImportOutcomes, n \in 0..MaxRecords : ImportFetch(outcome, n)
  \/ \E outcome \in RecordOutcomes : ImportRecord(outcome)
  \/ ImportDelay
  \/ ImportRespond

ImportSpec == ImportInit /\ [][ImportNext]_vars

(***************************************************************************)
(* Properties                                                              *)
(***************************************************************************)
\* the documents handed out: the body of the edge function's response, what the
\* browser's call returned
EdgeDoc == response[1].body.doc

HasEdgeDoc == response # NULL /\ response[1].body.kind = "xml"

BrowserDoc == bresult[1].doc

HasBrowserDoc == bresult # NULL /\ bresult[1].kind = "returned"

\* one alternate for each language and one x-default, which is the 'en' one, and
\* the entry's own <loc> is one of its alternates: same base, same path
AlternatesOk(u, langs) ==
  /\ Len(u.links) = Len(langs) + 1
  /\ \A k \in DOMAIN langs : \E i \in DOMAIN u.links : u.links[i].hreflang = langs[k]
  /\ \E i, j \in DOMAIN u.links :
       /\ u.links[i].hreflang = "x-default"
       /\ u.links[j].hreflang = "en"
       /\ u.links[i].href = u.links[j].href
       /\ \E path \in Paths : u.links[j].href = BASE_URL \o "/en" \o path
  /\ \E i \in DOMAIN u.links :
       u.links[i].hreflang # "x-default" /\ u.links[i].href = u.loc

\* C1: every <url> entry of every sitemap document, of the edge function and of
\* the browser module, has exactly one alternate per supported language and
\* exactly one x-default, whose href is the href of the 'en' alternate,
\* baseUrl + '/en' + the path of the entry's own <loc>.
C1_AlternatesComplete ==
  /\ (HasEdgeDoc /\ EdgeDoc.root = "urlset") =>
       \A k \in DOMAIN EdgeDoc.children :
          AlternatesOk(EdgeDoc.children[k], SUPPORTED_LANGUAGES)
  /\ (HasBrowserDoc /\ BrowserDoc.root = "urlset") =>
       \A k \in DOMAIN BrowserDoc.children :
          AlternatesOk(BrowserDoc.children[k], BROWSER_LANGUAGES)

\* a movies sitemap with entries has been served
C1_Witness ==
  /\ HasEdgeDoc /\ req.type = Some("movies")
  /\ Len(EdgeDoc.children) >= 2 * Len(SUPPORTED_LANGUAGES)

\* C2: for every record, whatever its popularity, rating and date, missing or
\* not, calculatePriority returns p with 0.5 <= p <= 1.0 (50 <= p <= 100 in
\* hundredths).
C2_PriorityInRange ==
  ranked # NULL =>
    /\ 50 <= ranked[1].priority /\ ranked[1].priority <= 100
    /\ 50 <= ranked[1].browserPriority /\ ranked[1].browserPriority <= 100

\* a record with no popularity, no rating and no date has been ranked
C2_Witness ==
  /\ ranked # NULL
  /\ item.popularity = NULL /\ item.vote_average = NULL
  /\ "release_date" \in DOMAIN item /\ item.release_date = NULL

\* days from 0001-01-01 to the first of month m of year y
DaysBefore(y, m) ==
  365 * (y - 1) + ((y - 1) \div 4) - ((y - 1) \div 100) + ((y - 1) \div 400)
  + (IF m > 1 THEN 31 ELSE 0) + (IF m > 2 THEN (IF IsLeap(y) THEN 29 ELSE 28) ELSE 0)
  + (IF m > 3 THEN 31 ELSE 0) + (IF m > 4 THEN 30 ELSE 0) + (IF m > 5 THEN 31 ELSE 0)
  + (IF m > 6 THEN 30 ELSE 0) + (IF m > 7 THEN 31 ELSE 0) + (IF m > 8 THEN 31 ELSE 0)
  + (IF m > 9 THEN 30 ELSE 0) + (IF m > 10 THEN 31 ELSE 0) + (IF m > 11 THEN 30 ELSE 0)

\* the day now minus k months: the day of now's number, counted from the first of
\* the month k months before now's
DayOfNowMinusMonths(k) ==
  LET months == 12 * now.y + (now.m - 1) - k
  IN DaysBefore(months \div 12, (months % 12) + 1) + now.d - 1

\* the record's primary date is a date strictly later than now minus k months
RefLater(it, k) ==
  LET date == IF "release_date" \in DOMAIN it THEN it.release_date
              ELSE it.first_air_date
  IN /\ date # NULL
     /\ date[1] # ""
     /\ ParseDate(date[1]) # InvalidDate
     /\ DaysBefore(ParseDate(date[1]).y, ParseDate(date[1]).m) + ParseDate(date[1]).d - 1
          > DayOfNowMinusMonths(k)

\* the reference function of the claim, in hundredths
RefPriority(it) ==
  LET pop == IF it.popularity = NULL THEN 0 ELSE it.popularity[1]
      vote == IF it.vote_average = NULL THEN 0 ELSE it.vote_average[1]
      base == CASE pop > 1000 -> 90
                [] pop > 500 /\ pop <= 1000 -> 85
                [] pop > 200 /\ pop <= 500 -> 75
                [] pop > 100 /\ pop <= 200 -> 65
                [] OTHER -> 60
      sum == base + (IF vote >= 80 THEN 5 ELSE 0) + (IF RefLater(it, 6) THEN 5 ELSE 0)
  IN IF sum > 100 THEN 100 ELSE IF sum < 50 THEN 50 ELSE sum

\* C3: calculatePriority is the reference function: the base by the strict
\* popularity steps, plus 0.05 for a rating of 8.0 or more, plus 0.05 for a
\* primary date strictly later than now minus 6 months, both bonuses together
\* when both apply, clamped to [0.5, 1.0]; never below 0.6.
C3_PriorityIsReference ==
  ranked # NULL =>
    /\ ranked[1].priority = RefPriority(item)
    /\ ranked[1].browserPriority = RefPriority(item)
    /\ ranked[1].priority >= 60

\* popularity 150, rating 8.5, a date one month old: exactly 1.0
C3_Witness ==
  /\ ranked # NULL
  /\ now = [y |-> 2025, m |-> 11, d |-> 6]
  /\ item.popularity = Some(1500) /\ item.vote_average = Some(85)
  /\ "release_date" \in DOMAIN item /\ item.release_date = Some("2025-10-06")
  /\ ranked[1].priority = 100

\* the request has been answered
Answered == response # NULL /\ req.method = "GET"

\* the call of the browser module has returned or thrown
BrowserAnswered == bresult # NULL

IsContent(kind) == kind \in {"movies", "tvshows"}

BrowserKind ==
  CASE bcall.method = "generateMoviesSitemap" -> "movies"
    [] bcall.method = "generateTVShowsSitemap" -> "tvshows"
    [] OTHER -> "other"

TableOf(kind) == IF kind = "movies" THEN movies ELSE tv_shows

PrefixOf(kind) == IF kind = "movies" THEN "/movie/" ELSE "/tv_show/"

\* the entry u is one of the entries of row r: its <loc> is r's page in a language
DerivedFrom(u, r, kind, langs) ==
  \E i \in DOMAIN langs :
    u.loc = BASE_URL \o "/" \o langs[i] \o PrefixOf(kind)
              \o (IF r.slug = NULL THEN "null" ELSE r.slug[1])

NoSluglessEntry(doc, kind, langs) ==
  \A r \in TableOf(kind) :
    (r.slug = NULL \/ r.slug = Some("")) =>
      \A k \in DOMAIN doc.children : ~DerivedFrom(doc.children[k], r, kind, langs)

\* C4: a record whose slug is null or the empty string never appears in the
\* movies or TV-shows sitemap, of the edge function or of the browser module: no
\* <url> entry of the document is derived from it.
C4_SluglessNeverListed ==
  /\ (HasEdgeDoc /\ IsContent(TypeOf(req))) =>
       NoSluglessEntry(EdgeDoc, TypeOf(req), SUPPORTED_LANGUAGES)
  /\ (HasBrowserDoc /\ IsContent(BrowserKind)) =>
       NoSluglessEntry(BrowserDoc, BrowserKind, BROWSER_LANGUAGES)

\* C5: the number of <url> entries of one movies or TV-shows sitemap document is
\* at most the configured maximum: MAX_URLS_PER_SITEMAP in the edge function, the
\* limit argument in the browser module.
C5_UrlCountBounded ==
  /\ (HasEdgeDoc /\ IsContent(TypeOf(req))) =>
       Len(EdgeDoc.children) <= MAX_URLS_PER_SITEMAP
  /\ (HasBrowserDoc /\ IsContent(BrowserKind)) =>
       Len(BrowserDoc.children) <= bcall.limit

\* the store answered the query of the call with an error
QueryFailed(events) ==
  \E k \in DOMAIN events : events[k].ev = "query" /\ events[k].res = "error"

\* C6: a data-fetch error of the content store during movies or TV-shows
\* generation is propagated to the caller as an error, and no sitemap document is
\* returned for that call, in the edge function and in the browser module.
C6_FetchErrorPropagated ==
  /\ (Answered /\ QueryFailed(log)) =>
       response[1].status = 500 /\ response[1].body.kind = "json"
  /\ (BrowserAnswered /\ QueryFailed(blog)) => bresult[1].kind # "returned"

\* the fetches of the request: the positions in the log where a page answered
NotOkAt(k) == log[k].ev = "fetch" /\ log[k].res = "notok"

\* the people of the pages before page n
RECURSIVE Collected(_)
Collected(n) == IF n <= 1 THEN <<>> ELSE Collected(n - 1) \o PageResults(n - 1)

Generators == {"generateMainSitemap", "generateMoviesSitemap", "generateTVShowsSitemap",
               "generatePersonSitemap", "generateSitemapIndex"}

\* the generators the request has run
Ran == {k \in DOMAIN log : log[k].ev \in Generators}

KnownType == req.type \in {Some("main"), Some("movies"), Some("tvshows"), Some("people")}

\* the date of the call as toISOString().split('T')[0] prints it
TodayText == IF now = [y |-> 2025, m |-> 11, d |-> 6] THEN "2025-11-06" ELSE "2026-03-05"

\* the response of a request for type=index
IndexResponse ==
  IF tmdbApiKey = ""
  THEN [status |-> 500, contentType |-> Some("application/json"), cacheControl |-> NULL,
        body |-> [kind |-> "json", error |-> "Failed to generate sitemap",
                  message |-> "TMDB_API_KEY environment variable is required"]]
  ELSE [status |-> 200, contentType |-> Some("application/xml"),
        cacheControl |-> Some("public, max-age=3600"),
        body |-> [kind |-> "xml",
                  doc |-> [root |-> "sitemapindex", closed |-> TRUE,
                           children |->
                             <<[loc |-> "https://www.tvshowup.com/sitemap-main.xml",
                                lastmod |-> TodayText],
                               [loc |-> "https://www.tvshowup.com/sitemap-movies.xml",
                                lastmod |-> TodayText],
                               [loc |-> "https://www.tvshowup.com/sitemap-tvshows.xml",
                                lastmod |-> TodayText],
                               [loc |-> "https://www.tvshowup.com/sitemap-people.xml",
                                lastmod |-> TodayText]>>]]]

\* C8 as the specification states it: exactly one generator runs per request.
C8_OneGeneratorPerRequest ==
  (response # NULL /\ req.method # "none") => Cardinality(Ran) = 1

\* C8, as the code has it: the response to a request whose type is missing, empty
\* or none of main, movies, tvshows, people is the response to type=index; a
\* request that passes the check of the configuration runs exactly one generator,
\* the index generator when the type is such; an OPTIONS request and a request
\* failing the check of the configuration run none.
C8_UnknownTypeIsIndex ==
  /\ (Answered /\ ~KnownType) => response[1] = IndexResponse
  /\ Cardinality(Ran) <= 1
  /\ (Answered /\ tmdbApiKey # "") => Cardinality(Ran) = 1
  /\ (req.method = "OPTIONS" \/ tmdbApiKey = "") => Ran = {}
  /\ ~KnownType => \A k \in Ran : log[k].ev = "generateSitemapIndex"

\* a request with an unknown type has been answered with the index
C8_Witness ==
  /\ Answered /\ req.type = Some("bogus")
  /\ response[1].status = 200
  /\ EdgeDoc.root = "sitemapindex"

\* generation threw
Threw == \E k \in DOMAIN log : log[k].ev = "throw"

\* C9: every request other than OPTIONS ends either in status 200 with a complete
\* XML document (its closing tag written), Content-Type application/xml and
\* Cache-Control public, max-age=3600, or, exactly when generation threw, in
\* status 500 with Content-Type application/json and a body {error, message};
\* no response carries a partly built document.
C9_CompleteXmlOrJsonError ==
  Answered =>
    \/ /\ ~Threw
       /\ response[1].status = 200
       /\ response[1].contentType = Some("application/xml")
       /\ response[1].cacheControl = Some("public, max-age=3600")
       /\ response[1].body.kind = "xml"
       /\ EdgeDoc.root \in {"urlset", "sitemapindex"}
       /\ EdgeDoc.closed
    \/ /\ Threw
       /\ response[1].status = 500
       /\ response[1].contentType = Some("application/json")
       /\ response[1].body.kind = "json"
       /\ response[1].body.error = "Failed to generate sitemap"
       /\ response[1].body.message = log[Len(log)].res

\* toISOString threw in the loop after the header was written: the request ended
\* with the JSON error
C9_Witness ==
  /\ Answered /\ req.type = Some("movies")
  /\ response[1].status = 500
  /\ response[1].body.message = "Invalid time value"

\* C10: when TMDB_API_KEY is absent, every request, whatever its type, fails with
\* the error response before any generator is invoked and before any store query
\* or API call is made.
C10_MissingKeyFailsFast ==
  tmdbApiKey = "" =>
    /\ \A k \in DOMAIN log : log[k].ev \in {"createClient", "throw"}
    /\ pc \in {"idle", "serve", "catch"}
    /\ Answered =>
         /\ response[1].status = 500
         /\ response[1].body.kind = "json"
         /\ response[1].body.message = "TMDB_API_KEY environment variable is required"

\* a movies request without the key has been answered with the error
C10_Witness ==
  /\ tmdbApiKey = "" /\ Answered /\ req.type = Some("movies")
  /\ response[1].status = 500
  /\ log = <<Event("createClient", 0, ""),
             Thrown("TMDB_API_KEY environment variable is required")>>

\* the rows the query of the call returned, the pages of people that had results
RowsReturned(events) ==
  IF \E k \in DOMAIN events : events[k].ev = "query" /\ events[k].res = "data"
  THEN events[CHOOSE k \in DOMAIN events : events[k].ev = "query"].n
  ELSE 0

PagesWithResults ==
  Cardinality({k \in DOMAIN log : log[k].ev = "fetch" /\ log[k].res = "results"})

\* the document is n blocks of one entry per language, in the order of the
\* languages: the i-th entry of a block is the page in the i-th language, and the
\* entries of a block are about the same path
OnePerPair(doc, n, langs) ==
  /\ Len(doc.children) = n * Len(langs)
  /\ \A j \in 1..n : \A i \in DOMAIN langs :
       LET u == doc.children[(j - 1) * Len(langs) + i]
           first == doc.children[(j - 1) * Len(langs) + 1]
       IN /\ u.links[i].hreflang = langs[i]
          /\ u.links[i].href = u.loc
          /\ u.links = first.links

\* the records are those of the data model: updated_at is null or a timestamp
Timestamped(table) == \A r \in table : ~LastmodThrows(r)

\* C11: each assembler emits exactly one <url> per (item, supported language)
\* pair, so a document has (number of items) x (number of languages) entries:
\* 7 x |languages| for the main sitemap (77 with the edge function's list), the
\* rows returned x |languages| for movies and TV shows, the people collected
\* (at most 2000) x |languages| for people.
C11_OneEntryPerItemAndLanguage ==
  /\ (HasEdgeDoc /\ TypeOf(req) = "main") =>
       /\ OnePerPair(EdgeDoc, 7, SUPPORTED_LANGUAGES)
       /\ Len(EdgeDoc.children) = 77
  /\ (HasEdgeDoc /\ IsContent(TypeOf(req))) =>
       OnePerPair(EdgeDoc, RowsReturned(log), SUPPORTED_LANGUAGES)
  /\ (HasEdgeDoc /\ TypeOf(req) = "people") =>
       OnePerPair(EdgeDoc, Min2(MAX_PEOPLE, PageLen * PagesWithResults),
                  SUPPORTED_LANGUAGES)
  /\ (HasBrowserDoc /\ bcall.method = "generateMainSitemap") =>
       OnePerPair(BrowserDoc, 7, BROWSER_LANGUAGES)
  /\ (HasBrowserDoc /\ IsContent(BrowserKind) /\ Timestamped(TableOf(BrowserKind))) =>
       OnePerPair(BrowserDoc, RowsReturned(blog), BROWSER_LANGUAGES)

\* a movies sitemap of two rows has been served
C11_Witness ==
  /\ HasEdgeDoc /\ TypeOf(req) = "movies"
  /\ RowsReturned(log) = 2
  /\ Len(EdgeDoc.children) = 22

\* str ends with suffix
EndsWith(str, suffix) ==
  /\ Len(str) >= Len(suffix)
  /\ SubSeq(str, Len(str) - Len(suffix) + 1, Len(str)) = suffix

\* alts is the alternates of path for the languages langs: one per language in
\* the order of langs, then x-default with the 'en' address
AlternatesOf(alts, path, langs) ==
  /\ Len(alts) = Len(langs) + 1
  /\ \A i \in DOMAIN langs :
       /\ alts[i].hreflang = langs[i]
       /\ alts[i].href = "https://www.tvshowup.com/" \o langs[i] \o path
  /\ alts[Len(alts)].hreflang = "x-default"
  /\ alts[Len(alts)].href = "https://www.tvshowup.com/en" \o path
  /\ \A i \in DOMAIN alts : EndsWith(alts[i].href, path)

\* C12: for any path and a language set of size L, generateAlternates returns
\* exactly L+1 entries: the first L one per language in language-set order with
\* href baseUrl + '/' + language + path, the last tagged x-default with href
\* baseUrl + '/en' + path; all hrefs end with the path, which is not validated.
C12_AlternatesShape ==
  returned.fn = "generateAlternates" =>
    /\ AlternatesOf(returned.alternates, call.path, SUPPORTED_LANGUAGES)
    /\ Len(returned.alternates) = 12
    /\ AlternatesOf(returned.browserAlternates, call.path, BROWSER_LANGUAGES)

\* the alternates of a path that is no path of the site have been returned
C12_Witness ==
  /\ returned.fn = "generateAlternates"
  /\ call.path = "/<x>?q=\"1\""
  /\ returned.alternates[2].href = "https://www.tvshowup.com/tr/<x>?q=\"1\""

\* the record with another popularity, same rating, same primary date
WithPopularity(it, p) == [it EXCEPT !.popularity = Some(p)]

\* the popularities the ranker is compared on, in tenths: 0, 5, 10, 15, 20, 25,
\* 50, 60, 100, 150 and their neighbours
ComparedPopularities ==
  {0, 50, 99, 100, 101, 150, 199, 200, 201, 250, 499, 500, 501, 600, 999, 1000, 1001, 1500}

\* C13: calculatePriority is non-decreasing in popularity: for two records with
\* the same rating and the same primary date, p1 >= p2 implies
\* priority(p1) >= priority(p2), after the bonuses and the clamp; 150, 60, 25,
\* 15, 5 give a non-increasing chain.
C13_MonotoneInPopularity ==
  ranked # NULL =>
    LET ranks == {[popularity |-> p,
                   edge |-> calculatePriority(WithPopularity(item, p)),
                   browser |-> SitemapGenerator_calculatePriority(WithPopularity(item, p))] :
                  p \in ComparedPopularities}
    IN /\ \A r1, r2 \in ranks :
            r1.popularity >= r2.popularity =>
              r1.edge >= r2.edge /\ r1.browser >= r2.browser
       /\ item.popularity # NULL =>
            \A r \in ranks :
              /\ r.popularity <= item.popularity[1] =>
                   r.edge <= ranked[1].priority /\ r.browser <= ranked[1].browserPriority
              /\ r.popularity >= item.popularity[1] =>
                   r.edge >= ranked[1].priority /\ r.browser >= ranked[1].browserPriority

\* a record of popularity 150 with both bonuses ranks 1.0, and the same record
\* with popularity 60, 25, 15 and 5 ranks 0.95, 0.85, 0.75 and 0.7
C13_Witness ==
  /\ ranked # NULL
  /\ item.popularity = Some(1500) /\ item.vote_average = Some(85)
  /\ "release_date" \in DOMAIN item /\ item.release_date = Some("2025-10-06")
  /\ now = [y |-> 2025, m |-> 11, d |-> 6]
  /\ ranked[1].priority = 100
  /\ calculatePriority(WithPopularity(item, 600)) = 95
  /\ calculatePriority(WithPopularity(item, 250)) = 85
  /\ calculatePriority(WithPopularity(item, 150)) = 75
  /\ calculatePriority(WithPopularity(item, 50)) = 70

\* the record is a TV record flagged in production
InProduction(it) == "in_production" \in DOMAIN it /\ it.in_production = Some(TRUE)

\* C14: calculateChangefreq returns weekly for a TV record flagged in production
\* whatever its primary date; otherwise weekly iff a primary date is present and
\* strictly later than now minus 3 months; otherwise monthly; never anything
\* but weekly or monthly.
C14_ChangefreqIsReference ==
  ranked # NULL =>
    LET expected == IF InProduction(item) \/ RefLater(item, 3) THEN "weekly" ELSE "monthly"
    IN /\ ranked[1].changefreq = expected
       /\ ranked[1].browserChangefreq = expected
       /\ ranked[1].changefreq \in {"weekly", "monthly"}
       /\ ranked[1].browserChangefreq \in {"weekly", "monthly"}
       /\ (now = [y |-> 2025, m |-> 11, d |-> 6] /\ ~InProduction(item)
           /\ "release_date" \in DOMAIN item) =>
            /\ item.release_date = Some("2025-10-06") => ranked[1].changefreq = "weekly"
            /\ item.release_date = Some("2025-07-06") => ranked[1].changefreq = "monthly"

\* a TV record in production whose first air date is 5 years old is weekly
C14_Witness ==
  /\ ranked # NULL
  /\ now = [y |-> 2025, m |-> 11, d |-> 6]
  /\ InProduction(item) /\ item.first_air_date = Some("2020-11-06")
  /\ ranked[1].changefreq = "weekly"
  /\ ranked[1].browserChangefreq = "weekly"

\* how many elements of that name the markup opens (or holds, for an empty element)
Elements(markup, name) ==
  Cardinality({i \in DOMAIN markup :
                 markup[i].kind \in {"start", "empty"} /\ markup[i].name = name})

\* reading the markup from position i with the elements in `open` not yet closed:
\* every end tag closes the element opened last, text is inside an element, and
\* nothing is open at the end
RECURSIVE Closes(_, _, _)
Closes(markup, i, open) ==
  IF i > Len(markup) THEN open = <<>>
  ELSE CASE markup[i].kind = "start" -> Closes(markup, i + 1, <<markup[i].name>> \o open)
         [] markup[i].kind = "end" ->
              /\ open # <<>>
              /\ Head(open) = markup[i].name
              /\ Closes(markup, i + 1, Tail(open))
         [] OTHER -> open # <<>> /\ Closes(markup, i + 1, open)

\* one complete <url>...</url>
CompleteUrl(markup) ==
  /\ Len(markup) >= 2
  /\ markup[1] = StartTag("url")
  /\ markup[Len(markup)] = EndTag("url")
  /\ Elements(markup, "url") = 1
  /\ Closes(markup, 1, <<>>)

OneIf(cond) == IF cond THEN 1 ELSE 0

\* the optional elements of the fragment are those of the fields that are set
OptionalsAsSet(markup, url) ==
  /\ Elements(markup, "loc") = 1
  /\ Elements(markup, "lastmod") = OneIf(url.lastmod # NULL /\ url.lastmod # Some(""))
  /\ Elements(markup, "changefreq") = OneIf(url.changefreq # NULL)
  /\ Elements(markup, "priority") = OneIf(url.priority # NULL)
  /\ Elements(markup, "xhtml:link") = Len(url.alternates)

\* C15: generateXmlUrl emits exactly one <loc>, <lastmod> iff lastmod is set,
\* <changefreq> iff changefreq is set, <priority> iff priority is defined (also
\* when it is 0), one xhtml:link per alternate, one image:image block per image
\* with image:title and image:caption only when set, and closes every element
\* it opens: the fragment is a complete <url>...</url>.
C15_FragmentComplete ==
  returned.fn = "generateXmlUrl" =>
    /\ OptionalsAsSet(returned.xml, call.url)
    /\ Elements(returned.xml, "image:image") = Len(call.url.images)
    /\ Elements(returned.xml, "image:loc") = Len(call.url.images)
    /\ Elements(returned.xml, "image:title")
         = Cardinality({i \in DOMAIN call.url.images : Truthy(call.url.images[i].title)})
    /\ Elements(returned.xml, "image:caption")
         = Cardinality({i \in DOMAIN call.url.images : Truthy(call.url.images[i].caption)})
    /\ CompleteUrl(returned.xml)
    /\ OptionalsAsSet(returned.browserXml, call.url)
    /\ CompleteUrl(returned.browserXml)
    /\ (returned.element.priority # NULL) = (call.url.priority # NULL)
    /\ Len(returned.element.links) = Len(call.url.alternates)
    /\ Len(returned.element.images) = Len(call.url.images)

\* a url with priority 0, no lastmod, no changefreq, alternates and two images,
\* one of them without title and caption, has been serialized
C15_Witness ==
  /\ returned.fn = "generateXmlUrl"
  /\ call.url.priority = Some(0) /\ call.url.lastmod = NULL /\ call.url.changefreq = NULL
  /\ Len(call.url.alternates) = 12 /\ Len(call.url.images) = 2
  /\ Elements(returned.xml, "priority") = 1
  /\ Elements(returned.xml, "image:caption") = 1

\* a digit, a point, a digit
OneDecimal(str) ==
  /\ Len(str) = 3
  /\ IsDigit(SubSeq(str, 1, 1))
  /\ SubSeq(str, 2, 2) = "."
  /\ IsDigit(SubSeq(str, 3, 3))

PrioritiesOneDecimal(doc) ==
  \A k \in DOMAIN doc.children :
    doc.children[k].priority # NULL => OneDecimal(doc.children[k].priority[1])

\* C16: every <priority> the serializer emits, in the edge function and in the
\* browser module, has exactly one decimal digit, for every priority the ranker
\* or the table of static pages produces.
C16_PriorityOneDecimal ==
  /\ (HasEdgeDoc /\ EdgeDoc.root = "urlset") => PrioritiesOneDecimal(EdgeDoc)
  /\ (HasBrowserDoc /\ BrowserDoc.root = "urlset") => PrioritiesOneDecimal(BrowserDoc)

Entities == {"&amp;", "&lt;", "&gt;", "&quot;", "&apos;"}

\* the entity of a character, the character itself when it has none
EntityOf(c) ==
  CASE c = "&" -> "&amp;"
    [] c = "<" -> "&lt;"
    [] c = ">" -> "&gt;"
    [] c = "\"" -> "&quot;"
    [] c = "'" -> "&apos;"
    [] OTHER -> c

\* every character replaced by its entity, once
RECURSIVE RefEscape(_)
RefEscape(str) ==
  IF str = "" THEN "" ELSE EntityOf(SubSeq(str, 1, 1)) \o RefEscape(SubSeq(str, 2, Len(str)))

\* no raw <, >, " or ', and every & starts one of the five entities
Escapes(out) ==
  \A i \in 1..Len(out) :
    /\ SubSeq(out, i, i) \notin {"<", ">", "\"", "'"}
    /\ SubSeq(out, i, i) = "&" =>
         \E e \in Entities : i + Len(e) - 1 <= Len(out) /\ SubSeq(out, i, i + Len(e) - 1) = e

\* the text of the k-th element of that name in the markup
RECURSIVE TextsOf(_, _)
TextsOf(markup, name) ==
  IF markup = <<>> THEN <<>>
  ELSE IF Head(markup).kind = "empty" /\ Head(markup).name = name
       THEN <<Head(markup).text>> \o TextsOf(Tail(markup), name)
  ELSE IF Head(markup).kind = "start" /\ Head(markup).name = name
       THEN <<markup[2].text>> \o TextsOf(Tail(markup), name)
  ELSE TextsOf(Tail(markup), name)

\* the titles and captions of the images that have one, in order
RECURSIVE SetFields(_, _)
SetFields(images, field) ==
  IF images = <<>> THEN <<>>
  ELSE (IF Truthy(Head(images)[field]) THEN <<Head(images)[field][1]>> ELSE <<>>)
       \o SetFields(Tail(images), field)

\* C17: escapeXml replaces every &, <, >, " and ' by &amp;, &lt;, &gt;, &quot;,
\* &apos; and leaves every other character as it is: its output has no raw <,
\* >, " or ', every & of it starts one of the five entities, and an & of the
\* input is escaped once; the serializer applies it to <loc>, every alternate
\* href, image:loc, image:title and image:caption.
C17_EscapeXml ==
  /\ returned.fn = "escapeXml" =>
       /\ returned.value = RefEscape(call.str)
       /\ returned.browserValue = RefEscape(call.str)
       /\ Escapes(returned.value)
       /\ Escapes(returned.browserValue)
  /\ returned.fn = "generateXmlUrl" =>
       /\ TextsOf(returned.xml, "loc") = <<RefEscape(call.url.loc)>>
       /\ TextsOf(returned.xml, "xhtml:link")
            = [i \in DOMAIN call.url.alternates |-> RefEscape(call.url.alternates[i].href)]
       /\ TextsOf(returned.xml, "image:loc")
            = [i \in DOMAIN call.url.images |-> RefEscape(call.url.images[i].loc)]
       /\ TextsOf(returned.xml, "image:title")
            = [i \in DOMAIN SetFields(call.url.images, "title") |->
                 RefEscape(SetFields(call.url.images, "title")[i])]
       /\ TextsOf(returned.xml, "image:caption")
            = [i \in DOMAIN SetFields(call.url.images, "caption") |->
                 RefEscape(SetFields(call.url.images, "caption")[i])]
       /\ TextsOf(returned.browserXml, "loc") = <<RefEscape(call.url.loc)>>
       /\ TextsOf(returned.browserXml, "xhtml:link")
            = [i \in DOMAIN call.url.alternates |-> RefEscape(call.url.alternates[i].href)]

\* a string with all five characters has been escaped
C17_Witness ==
  /\ returned.fn = "escapeXml"
  /\ call.str = "<a href=\"x\">Tom & 'Jerry'</a>"
  /\ returned.value
       = "&lt;a href=&quot;x&quot;&gt;Tom &amp; &apos;Jerry&apos;&lt;/a&gt;"

\* the four <sitemap> entries, stamped with the date of the call
FourSitemaps ==
  [k \in 1..4 |->
     [loc |-> "https://www.tvshowup.com/sitemap-"
                \o <<"main", "movies", "tvshows", "people">>[k] \o ".xml",
      lastmod |-> TodayText]]

\* the call did not touch the store or the API
Untouched(events) ==
  \A k \in DOMAIN events : events[k].ev \notin {"query", "fetch"}

\* C18: generateSitemapIndex always emits exactly four <sitemap> entries, in the
\* order main, movies, tvshows, people, each with the current date of the call as
\* <lastmod>, whatever the content store holds and whether or not a category
\* sitemap can be generated: it reads neither the store nor the API.
C18_IndexIsFixed ==
  /\ (Answered /\ \E k \in DOMAIN log : log[k].ev = "generateSitemapIndex") =>
       /\ HasEdgeDoc
       /\ EdgeDoc = [root |-> "sitemapindex", children |-> FourSitemaps, closed |-> TRUE]
       /\ Len(EdgeDoc.children) = 4
       /\ Untouched(log)
  /\ (BrowserAnswered /\ bcall.method = "generateSitemapIndex") =>
       /\ HasBrowserDoc
       /\ BrowserDoc = [root |-> "sitemapindex", children |-> FourSitemaps, closed |-> TRUE]
       /\ blog = <<>>

\* the index has been served on the second date, with rows in the store
C18_Witness ==
  /\ HasEdgeDoc /\ req.type = Some("index")
  /\ now = [y |-> 2026, m |-> 3, d |-> 5]
  /\ movies # {}
  /\ EdgeDoc.children[4]
       = [loc |-> "https://www.tvshowup.com/sitemap-people.xml", lastmod |-> "2026-03-05"]

\* the documents a call of that kind returns from this store, worked out from
\* the store alone: one for each order the store may return equal popularities in
FreshContent(kind) ==
  {Close(Append_(Header("urlset"), ContentUrls(data, kind))) :
     data \in {d \in Query(TableOf(kind), MAX_URLS_PER_SITEMAP) : RowsBeforeThrow(d) = d}}

FreshBrowserContent(kind, limit) ==
  {Close(Append_(Header("urlset"), BrowserContentUrls(RowsBeforeThrow(data), kind))) :
     data \in Query(TableOf(kind), limit)}

\* the people document of the pages the API answered with
FreshPeople ==
  Close(Append_(Header("urlset"), PeopleUrls(Collected(PagesWithResults + 1))))

\* what the request returns depends on the request, the store, the answers of
\* the API and the date only, not on the requests and calls before it
SameAsFirst ==
  /\ (HasEdgeDoc /\ TypeOf(req) = "main") => EdgeDoc = generateMainSitemap
  /\ (HasEdgeDoc /\ IsContent(TypeOf(req))) => EdgeDoc \in FreshContent(TypeOf(req))
  /\ (HasEdgeDoc /\ TypeOf(req) = "people") => EdgeDoc = FreshPeople
  /\ (HasEdgeDoc /\ TypeOf(req) \notin {"main", "movies", "tvshows", "people"}) =>
       EdgeDoc = generateSitemapIndex
  /\ (Answered /\ tmdbApiKey # "" /\ ~Threw) => HasEdgeDoc
  /\ (Answered /\ Threw) =>
       LET message == log[Len(log)].res IN
         /\ log[Len(log)].ev = "throw"
         /\ message = "TMDB_API_KEY environment variable is required" => tmdbApiKey = ""
         /\ message = "store error" => IsContent(TypeOf(req)) /\ QueryFailed(log)
         /\ message = "Invalid time value" =>
              IsContent(TypeOf(req)) /\ ~Timestamped(TableOf(TypeOf(req)))
         /\ message = "fetch failed" =>
              /\ TypeOf(req) = "people"
              /\ \E k \in DOMAIN log : log[k].ev = "fetch" /\ log[k].n = PagesWithResults + 1
  /\ (HasBrowserDoc /\ bcall.method = "generateMainSitemap") =>
       BrowserDoc = SitemapGenerator_generateMainSitemap
  /\ (HasBrowserDoc /\ bcall.method = "generateSitemapIndex") =>
       BrowserDoc = SitemapGenerator_generateSitemapIndex
  /\ (HasBrowserDoc /\ IsContent(BrowserKind) /\ ~QueryFailed(blog)) =>
       BrowserDoc \in FreshBrowserContent(BrowserKind, bcall.limit)

Selected(c) ==
  /\ frames[c].fn = "increment_ai_chat_usage" /\ frames[c].pc = "selected"
  /\ frames[c].p_user_id # NULL \/ frames[c].p_session_id # NULL

\* the records of the caller's identity
RecordsOf(table, p_user_id, p_session_id) ==
  {r \in table : IF p_user_id # NULL THEN r.user_id = p_user_id
                                      ELSE r.session_id = p_session_id}

\* C20: increment_ai_chat_usage does not return false because no usage record
\* exists: a call for a user id or a session id that finds no record creates
\* exactly one, with used_count = 1, bonus_limit = 0 and daily_limit = 25 for
\* a user id and 5 for a session-only caller, and returns true; a call that
\* returns false has found a record.
C20_CreatesMissingRecord ==
  [][\A c \in Calls :
       /\ (frames[c].pc = "returned" /\ frames'[c].pc = "selected"
             /\ frames'[c].fn = "increment_ai_chat_usage"
             /\ (frames'[c].p_user_id # NULL \/ frames'[c].p_session_id # NULL)) =>
            (frames'[c].v_current_used = NULL <=>
               RecordsOf(ai_chat_usage_limits, frames'[c].p_user_id,
                         frames'[c].p_session_id) = {})
       /\ (Selected(c) /\ frames[c].v_current_used = NULL /\ frames'[c] # frames[c]) =>
            /\ frames'[c].result = Some(TRUE)
            /\ ai_chat_usage_limits \subseteq ai_chat_usage_limits'
            /\ \E r \in ai_chat_usage_limits' :
                 /\ ai_chat_usage_limits' \ ai_chat_usage_limits = {r}
                 /\ r.user_id = frames[c].p_user_id
                 /\ r.session_id = frames[c].p_session_id
                 /\ r.used_count = 1
                 /\ r.bonus_limit = 0
                 /\ r.daily_limit = IF frames[c].p_user_id # NULL THEN 25 ELSE 5
       /\ (Selected(c) /\ frames'[c].result = Some(FALSE)) =>
            frames[c].v_current_used # NULL]_vars

\* a session-only caller with no record was answered true and has its record,
\* and a user with no record likewise
C20_Witness ==
  /\ \E c \in Calls :
       /\ frames[c].result = Some(TRUE) /\ frames[c].p_user_id = NULL
       /\ \E r \in ai_chat_usage_limits :
            /\ r.session_id = frames[c].p_session_id /\ r.user_id = NULL
            /\ r.used_count = 1 /\ r.daily_limit = 5 /\ r.bonus_limit = 0
  /\ \E c \in Calls :
       /\ frames[c].result = Some(TRUE) /\ frames[c].p_user_id # NULL
       /\ \E r \in ai_chat_usage_limits :
            /\ r.user_id = frames[c].p_user_id
            /\ r.used_count = 1 /\ r.daily_limit = 25 /\ r.bonus_limit = 0

\* the sum of used_count over a set of records
RECURSIVE UsedIn(_)
UsedIn(records) ==
  IF records = {} THEN 0
  ELSE LET r == CHOOSE x \in records : TRUE IN r.used_count + UsedIn(records \ {r})

\* the records of visitors (no user id) last used from the address and reset
\* fewer than 24 hours ago: their used_count counts the calls of
\* increment_ai_chat_usage answered true since then
VisitorRecords(address) ==
  {r \in ai_chat_usage_limits :
     /\ r.user_id = NULL /\ r.ip_address = Some(address)
     /\ clock - r.last_reset_at < RESET_AFTER}

\* C21: a visitor without a user id calling from one client address is answered
\* true by increment_ai_chat_usage at most 5 times within 24 hours, whatever
\* session ids the calls carry.
C21_FivePromptsPerAddress ==
  \A addr \in ClientAddrs :
    addr # NULL => UsedIn(VisitorRecords(addr[1])) <= SESSION_LIMIT

\* the records of a user id, of a session id
OfUser(u) == {r \in ai_chat_usage_limits : r.user_id = Some(u)}

OfSession(s) == {r \in ai_chat_usage_limits : r.session_id = Some(s)}

\* C25: in every reachable state there is at most one usage record per user id
\* and per session id, also after two first calls for one identity that both
\* found no record before either inserted; so the used_count of an identity's
\* records never adds up to more than its daily limit.
C25_OneRecordPerIdentity ==
  /\ \A u \in UserIds :
       Cardinality(OfUser(u)) <= 1 /\ UsedIn(OfUser(u)) <= USER_LIMIT
  /\ \A s \in SessionIds :
       Cardinality(OfSession(s)) <= 1

\* connection c is in a call of check_and_reset_ai_chat_limits that found a
\* record with a stored address other than the client's
ChangedAddress(c) ==
  /\ frames[c].fn = "check_and_reset_ai_chat_limits" /\ frames[c].pc = "selected"
  /\ IpChanged(frames[c])

\* the record takes the place of the old one: client address, nothing used, the
\* base limit, and the call reports all of it as remaining
Replaces(c, r) ==
  /\ r.user_id = frames[c].p_user_id /\ r.session_id = frames[c].p_session_id
  /\ r.ip_address = Some(frames[c].v_client_ip)
  /\ r.used_count = 0 /\ r.bonus_limit = 0
  /\ r.daily_limit = frames[c].v_base_limit
  /\ frames'[c].row # NULL
  /\ frames'[c].row[1].remaining = Some(r.daily_limit)

\* the part of C22 on the old and the new record
C22_Replaced ==
  [][\A c \in Calls :
       /\ (ChangedAddress(c) /\ frames'[c] # frames[c]) =>
            /\ frames'[c].pc = "deleted"
            /\ ai_chat_usage_limits' =
                 {r \in ai_chat_usage_limits : r.id # frames[c].v_record[1].id}
       /\ (frames[c].pc = "deleted" /\ frames'[c] # frames[c]) =>
            /\ ai_chat_usage_limits \subseteq ai_chat_usage_limits'
            /\ \E r \in ai_chat_usage_limits' :
                 /\ ai_chat_usage_limits' \ ai_chat_usage_limits = {r}
                 /\ Replaces(c, r)]_vars

\* C22: when check_and_reset_ai_chat_limits finds a record whose stored
\* address is not null and not the client's, it deletes the record and creates
\* one with the client's address, used_count = 0, bonus_limit = 0 and the base
\* daily limit, and reports remaining = daily_limit; afterwards exactly one
\* record exists for that identity.
C22_AddressChangeReplacesRecord ==
  /\ C22_Replaced
  /\ [][\A c \in Calls :
          (frames[c].pc = "deleted" /\ frames'[c] # frames[c]) =>
            Cardinality(RecordsOf(ai_chat_usage_limits', frames[c].p_user_id,
                                  frames[c].p_session_id)) = 1]_vars

\* C23: in every state reachable by any interleaving of the two procedures'
\* calls every usage record has 0 <= used_count <= daily_limit, and no
\* 'remaining' returned by check_and_reset_ai_chat_limits is negative.
C23_UsedWithinLimit ==
  /\ \A r \in ai_chat_usage_limits : 0 <= r.used_count /\ r.used_count <= r.daily_limit
  /\ \A c \in Calls :
       (frames[c].row # NULL /\ frames[c].row[1].remaining # NULL) =>
         frames[c].row[1].remaining[1] >= 0

\* a record has been counted up to its limit and a call has reported that
\* nothing remains
C23_Witness ==
  /\ \E r \in ai_chat_usage_limits : r.used_count = r.daily_limit
  /\ \E c \in Calls :
       /\ frames[c].fn = "check_and_reset_ai_chat_limits"
       /\ frames[c].row # NULL /\ frames[c].row[1].remaining = Some(0)
  /\ \E c \in Calls :
       frames[c].fn = "increment_ai_chat_usage" /\ frames[c].result = Some(TRUE)

\* the call of connection c has read a record, its address and its count pass
\* the checks, and its UPDATE is still to run
ReadyToUpdate(c) ==
  /\ Selected(c) /\ frames[c].v_current_used # NULL
  /\ ~(frames[c].v_stored_ip # NULL /\ frames[c].v_stored_ip[1] # frames[c].v_client_ip)
  /\ frames[c].v_current_used[1] < frames[c].v_daily_limit[1]

\* C24: the increment is atomic with respect to the limit. For calls on one
\* existing record that interleave between their read and their guarded
\* UPDATE, every call answered true raises used_count by exactly one and every
\* call answered false leaves it, and used_count stays within daily_limit; a
\* call is answered true exactly when the record is below its limit when the
\* UPDATE runs, so of two concurrent calls that read used_count =
\* daily_limit - 1 one returns true and the other false.
C24_IncrementAtomic ==
  [][\A c \in Calls :
       LET before == RecordsOf(ai_chat_usage_limits, frames[c].p_user_id,
                               frames[c].p_session_id)
           after == RecordsOf(ai_chat_usage_limits', frames[c].p_user_id,
                              frames[c].p_session_id)
       IN  (ReadyToUpdate(c) /\ frames'[c] # frames[c] /\ Cardinality(before) = 1) =>
             /\ Cardinality(after) = 1
             /\ \A r \in after : r.used_count <= r.daily_limit
             /\ frames'[c].result = Some(TRUE) <=>
                  \E r \in before : r.used_count < r.daily_limit
             /\ frames'[c].result = Some(TRUE) => UsedIn(after) = UsedIn(before) + 1
             /\ frames'[c].result = Some(FALSE) =>
                  ai_chat_usage_limits' = ai_chat_usage_limits]_vars

\* two calls read used_count = daily_limit - 1 of one record; one has been
\* answered true, the record is at its limit, the other has not run its UPDATE
C24_Witness ==
  \E c, d \in Calls :
    /\ c # d
    /\ frames[c].fn = "increment_ai_chat_usage" /\ frames[c].result = Some(TRUE)
    /\ ReadyToUpdate(d)
    /\ frames[d].p_user_id = frames[c].p_user_id
    /\ frames[d].p_session_id = frames[c].p_session_id
    /\ frames[d].v_current_used[1] = frames[d].v_daily_limit[1] - 1
    /\ \E r \in ai_chat_usage_limits :
         /\ RecordsOf(ai_chat_usage_limits, frames[d].p_user_id,
                      frames[d].p_session_id) = {r}
         /\ r.used_count = r.daily_limit

\* C26: increment_ai_chat_usage validates the address before it increments:
\* when the record it reads has a stored address that is not null and not the
\* client's, or has used_count >= daily_limit, the call returns false and
\* leaves the table, so the record's used_count, ip_address, daily_limit and
\* last_reset_at, as they are.
C26_RejectedLeavesRecord ==
  [][\A c \in Calls :
       /\ (frames[c].pc = "returned" /\ frames'[c].pc = "selected"
             /\ frames'[c].fn = "increment_ai_chat_usage"
             /\ frames'[c].v_current_used # NULL) =>
            \E r \in RecordsOf(ai_chat_usage_limits, frames'[c].p_user_id,
                               frames'[c].p_session_id) :
              /\ frames'[c].v_stored_ip = r.ip_address
              /\ frames'[c].v_current_used = Some(r.used_count)
              /\ frames'[c].v_daily_limit = Some(r.daily_limit)
       /\ (Selected(c) /\ frames[c].v_current_used # NULL /\ frames'[c] # frames[c]
             /\ \/ /\ frames[c].v_stored_ip # NULL
                   /\ frames[c].v_stored_ip # Some(frames[c].v_client_ip)
                \/ frames[c].v_current_used[1] >= frames[c].v_daily_limit[1]) =>
            /\ frames'[c].result = Some(FALSE)
            /\ ai_chat_usage_limits' = ai_chat_usage_limits]_vars

\* the only call made so far was answered false though its record is below the
\* limit: it came from another address than the stored one
C26_Witness ==
  /\ started = 1
  /\ \E c \in Calls :
       /\ frames[c].fn = "increment_ai_chat_usage" /\ frames[c].result = Some(FALSE)
       /\ \E r \in ai_chat_usage_limits :
            /\ RecordsOf(ai_chat_usage_limits, frames[c].p_user_id,
                         frames[c].p_session_id) = {r}
            /\ r.used_count < r.daily_limit
            /\ r.ip_address = Some("203.0.113.7")

\* connection c is in a call of check_and_reset_ai_chat_limits that has read a
\* record whose address passes the check
Checked(c) ==
  /\ frames[c].fn = "check_and_reset_ai_chat_limits" /\ frames[c].pc = "selected"
  /\ frames[c].v_record # NULL /\ ~IpChanged(frames[c])

\* the record is what a reset at time t makes of record r
ResetOf(r2, r, t) ==
  /\ r2.id = r.id
  /\ r2.used_count = 0 /\ r2.bonus_limit = 0 /\ r2.last_reset_at = t

\* the part of C27 on check_and_reset_ai_chat_limits and on what
\* increment_ai_chat_usage leaves alone
C27_ResetRule ==
  [][\A c \in Calls :
       /\ (Checked(c) /\ frames'[c] # frames[c]
             /\ frames[c].v_now - frames[c].v_record[1].last_reset_at >= RESET_AFTER) =>
            /\ \A r \in ai_chat_usage_limits :
                 IF r.id = frames[c].v_record[1].id
                 THEN \E r2 \in ai_chat_usage_limits' : ResetOf(r2, r, frames[c].v_now)
                 ELSE r \in ai_chat_usage_limits'
            /\ Cardinality(ai_chat_usage_limits') = Cardinality(ai_chat_usage_limits)
            /\ frames'[c].row[1].reset_at # NULL =>
                 frames'[c].row[1].reset_at = Some(frames[c].v_now + RESET_AFTER)
       /\ (Checked(c) /\ frames'[c] # frames[c]
             /\ frames[c].v_now - frames[c].v_record[1].last_reset_at < RESET_AFTER) =>
            /\ ai_chat_usage_limits' = ai_chat_usage_limits
            /\ frames'[c].row[1].used_count = Some(frames[c].v_record[1].used_count)
            /\ frames'[c].row[1].reset_at =
                 Some(frames[c].v_record[1].last_reset_at + RESET_AFTER)
       /\ (frames[c].fn = "increment_ai_chat_usage" /\ frames'[c] # frames[c]) =>
            \A r \in ai_chat_usage_limits :
              \E r2 \in ai_chat_usage_limits' :
                /\ r2.id = r.id /\ r2.used_count >= r.used_count
                /\ r2.last_reset_at = r.last_reset_at]_vars

\* C27: check_and_reset_ai_chat_limits resets a record (used_count = 0,
\* bonus_limit = 0, last_reset_at = now) exactly when it exists, passes the
\* address check and 24 hours or more have passed since last_reset_at; with
\* fewer it leaves used_count and last_reset_at, and reset_at is always
\* last_reset_at + 24 hours. increment_ai_chat_usage never resets used_count,
\* so a record at its limit stays at it, refused, until
\* check_and_reset_ai_chat_limits resets it after the 24 hours.
C27_ResetOnlyAfterADay ==
  /\ C27_ResetRule
  /\ [][\A r \in ai_chat_usage_limits :
          r.used_count >= r.daily_limit =>
            \E r2 \in ai_chat_usage_limits' :
              /\ r2.id = r.id
              /\ \/ r2.used_count >= r2.daily_limit /\ r2.last_reset_at = r.last_reset_at
                 \/ /\ r2.used_count = 0
                    /\ r2.last_reset_at >= r.last_reset_at + RESET_AFTER]_vars

\* the people collected after the first n requests
RECURSIVE LengthAfter(_)
LengthAfter(n) == IF n = 0 THEN 0 ELSE LengthAfter(n - 1) + loop.requested[n].size

\* C28: the fetch loop of the people assembler ends after at most 10 page
\* requests, for pages 1, 2, ... in order; it stops at the first empty page, the
\* first response that is not a success, or as soon as 2,000 or more people are
\* collected, so every request but the last had results and left fewer than
\* 2,000 people; no page is requested after the loop has stopped, and no more
\* than 2,000 people are written to the document.
C28_LoopBounded ==
  /\ []( /\ Len(loop.requested) <= MAX_PAGES
         /\ \A k \in DOMAIN loop.requested : loop.requested[k].page = k
         /\ \A k \in DOMAIN loop.requested :
              k < Len(loop.requested) =>
                /\ loop.requested[k].outcome = "results"
                /\ LengthAfter(k) < MAX_PEOPLE
         /\ loop.length = LengthAfter(Len(loop.requested))
         /\ loop.pc = "fetch" =>
              /\ loop.page = Len(loop.requested) + 1
              /\ loop.page <= MAX_PAGES
              /\ loop.length < MAX_PEOPLE
         /\ loop.written <= MAX_PEOPLE
         /\ loop.pc = "done" => loop.written = Min(loop.length, MAX_PEOPLE) )
  /\ [][loop.pc \in {"write", "done", "thrown"} =>
          \/ loop'.requested = loop.requested
          \/ loop'.requested = <<>>]_vars

\* the loop has stopped before its tenth page with more than 2,000 people
\* collected, and 2,000 were written
C28_Witness ==
  /\ loop.pc = "done"
  /\ Len(loop.requested) < MAX_PAGES
  /\ loop.length > MAX_PEOPLE
  /\ loop.written = MAX_PEOPLE

\* the image:image children a record's entries must carry: the poster if the
\* record has a poster_path, then the backdrop if it has a backdrop_path
ImagesOfRecord(im, r) ==
  /\ Len(im) = (IF Truthy(r.poster_path) THEN 1 ELSE 0)
               + (IF Truthy(r.backdrop_path) THEN 1 ELSE 0)
  /\ Len(im) <= 2
  /\ Truthy(r.poster_path) =>
       im[1].loc = escapeXml(TMDB_IMAGE_BASE \o r.poster_path[1])
  /\ Truthy(r.backdrop_path) =>
       im[Len(im)].loc = escapeXml(TMDB_IMAGE_BASE \o r.backdrop_path[1])

\* C29: a movie or TV-show record gets at most two images, a poster image iff
\* it has a poster_path and a backdrop image iff it has a backdrop_path, poster
\* first, the same list on the entry of every language; a record with neither
\* has entries without images; no record returned is left out of the document,
\* and once the store has answered with rows no error is raised but by an
\* updated_at that is not a date.
C29_PosterThenBackdrop ==
  /\ (HasEdgeDoc /\ IsContent(TypeOf(req))) =>
       LET n == Len(SUPPORTED_LANGUAGES)
           kind == TypeOf(req)
       IN /\ Len(EdgeDoc.children) = RowsReturned(log) * n
          /\ \A j \in 1..RowsReturned(log) :
               \E r \in TableOf(kind) :
                 /\ EdgeDoc.children[(j - 1) * n + 1].loc
                      = escapeXml(BASE_URL \o "/" \o SUPPORTED_LANGUAGES[1]
                                  \o PrefixOf(kind) \o Str(r.slug))
                 /\ \A i \in 1..n :
                      ImagesOfRecord(EdgeDoc.children[(j - 1) * n + i].images, r)
  /\ (/\ IsContent(TypeOf(req)) /\ error # NULL
      /\ \E k \in DOMAIN log : log[k].ev = "query" /\ log[k].res = "data") =>
       \E r \in TableOf(TypeOf(req)) : LastmodThrows(r)

\* a movies sitemap has been served for a record with a poster and a backdrop
\* and a record with neither
C29_Witness ==
  /\ HasEdgeDoc /\ TypeOf(req) = "movies"
  /\ RowsReturned(log) = 2
  /\ \E r \in movies : Truthy(r.poster_path) /\ Truthy(r.backdrop_path)
  /\ \E r \in movies : ~Truthy(r.poster_path) /\ ~Truthy(r.backdrop_path)
  /\ \E k \in DOMAIN EdgeDoc.children : Len(EdgeDoc.children[k].images) = 2
  /\ \E k \in DOMAIN EdgeDoc.children : EdgeDoc.children[k].images = <<>>

\* the pages of a loop that the trace has a request for
PagesRequested(kind) ==
  {imp.trace[k].page : k \in {j \in DOMAIN imp.trace :
                                imp.trace[j].ev = "request" /\ imp.trace[j].kind = kind}}

\* the part of C30 that holds: when the import answers, every page 1..pages of
\* each loop the request asks for has been requested, whatever failed on the way
C30_AllPagesRequested ==
  (imp.pc = "done" /\ imp.status = 200) =>
    \A kind \in {"movie", "tv"} :
      PagesRequested(kind) = IF HasLoop(imp.contentType, kind) THEN 1..imp.pages ELSE {}

\* C30: a fixed delay separates every two consecutive page requests of the
\* trending import: the request for page k+1 is issued only after the delay
\* that follows page k, whether page k's request succeeded, was answered with a
\* response that is not a success, or threw; and no failure keeps the remaining
\* pages from being requested.
C30_DelayBetweenPages ==
  /\ \A k \in DOMAIN imp.trace :
       (imp.trace[k].ev = "request" /\ imp.trace[k].page > 1) =>
          imp.trace[k - 1] = [ev |-> "delay", kind |-> imp.trace[k].kind,
                              page |-> imp.trace[k].page - 1]
  /\ C30_AllPagesRequested

\* an import of two pages of both kinds has answered after four requests
C30_Witness ==
  /\ imp.pc = "done" /\ imp.status = 200
  /\ imp.contentType = "both" /\ imp.pages = 2
  /\ PagesRequested("movie") = {1, 2} /\ PagesRequested("tv") = {1, 2}
  /\ imp.results.movies.errors > 0

=============================================================================
